---- MODULE Spec2Model ----
(***************************************************************************)
(* The download job orchestrator of app/internal/services/download_manager *)
(* as a state machine: the queue worker, the monitor task (poll cycle,     *)
(* orphan-finalization sweep, seed cleanup sweep), the finalization tasks  *)
(* with the two asyncio locks, and the manual reprocess handler.           *)
(*                                                                         *)
(* Every task works on the job table through its own ORM session.  A       *)
(* session keeps the rows it loaded (identity map): Session.get on a row   *)
(* that is already loaded returns the loaded object, a commit writes the   *)
(* attributes whose value differs from the loaded one and expires every    *)
(* object of the session, and the next access to an expired object reads   *)
(* the row again.  One step of the model is the code between two awaits.   *)
(***************************************************************************)
EXTENDS Integers, Sequences, FiniteSets, TLC

(* ---------------------------------------------------------------------- *)
(* Bounds                                                                  *)
(* ---------------------------------------------------------------------- *)
MaxTicks == 1
MaxReprocess == 1
MaxCrashes == 1
MaxFaults == 1
MaxQuarters == 5
MaxDirLen == 5
MaxNameLen == 2
MaxFiles == 2

(* ---------------------------------------------------------------------- *)
(* Program constants                                                       *)
(* ---------------------------------------------------------------------- *)
MAX_SEED_SECONDS == 31536000
SweepInterval == 900
DefaultSeedHours == 72
RetryGate == 3600
RetryIntervalHours == 72
RetryBatch == 5

Jobs == {"j1", "j2"}
JobOrder == <<"j1", "j2">>

PollTaskOrder == <<"t1", "t2">>
PollTasks == {PollTaskOrder[i] : i \in 1..Len(PollTaskOrder)}
TaskIds == PollTasks \cup {"sweep", "reprocess"}

NoTime == 0 - 1
NoRatio == 0 - 1
NoPath == "None"
NoCfg == [required_seed_seconds |-> 0 - 1, ratio_limit |-> NoRatio]
NoJob == "None"
NoSettings == [seed_target_hours |-> 0, ratio_limit |-> NoRatio]
NoHolder == "None"
NoTorrent == "None"
TorrentIds == {"ta", "tb"}
(* what a search of the tracker gives: the id of the best result, no result,
   or an error *)
Unreachable == "unreachable"
MamAnswers == TorrentIds \cup {NoTorrent, Unreachable}
(* the wishlist requests, in table order *)
RequestOrder == <<"r1", "r2", "r3", "r4", "r5", "r6">>
Requests == {RequestOrder[i] : i \in 1..Len(RequestOrder)}
NoRequest == "None"
NoInstance == 0
NotCalled == [via |-> "none", inst |-> NoInstance]
NoCall == [done |-> FALSE]
Returned(v) == [done |-> TRUE, value |-> v]
(* the tasks that ask for the orchestrator *)
Callers == {"c1", "c2", "c3", "c4", "c5"}

(* QbitClient objects, the URLs and credentials they are constructed with, and
   the accounts the qBittorrent WebUI accepts *)
QbitIds == {"q1", "q2"}
Urls == {<<"h">>, <<"h", "/">>, <<"g">>}
Usernames == {"user1", "user2"}
Passwords == {"pass1", "pass2"}
Accounts == {<<"user1", "pass1">>, <<"user2", "pass2">>}
NoCookies == "none"
NoCreds == <<>>
NoClient == [made |-> FALSE, base_url |-> <<>>, username |-> "", password |-> "",
             cookie_key |-> <<>>, authenticated |-> FALSE, jar |-> NoCookies,
             cached |-> NoCreds]
(* no _request call is in progress *)
NoCallInFlight == [pc |-> "idle", client |-> "q1", attempt |-> 0, sent |-> 0, statuses |-> <<>>,
              logins |-> 0, login_ok |-> FALSE, outcome |-> "none"]
(* a wishlist request nobody marked unavailable *)
NoWish == [mam_unavailable |-> FALSE, mam_last_check |-> NoTime]
(* a wishlist request marked unavailable by a search that found nothing *)
FlaggedWish == [mam_unavailable |-> TRUE, mam_last_check |-> NoTime]

Paths == {"out", "out_jobid"}

(* the amount by which the wall clock is seen to advance *)
TickStep == DefaultSeedHours * 3600

(* settings rows: seed target hours and optional ratio limit *)
SettingsSet == [seed_target_hours : {0, DefaultSeedHours}, ratio_limit : {NoRatio, 1}]

(* what the client may report for one torrent *)
ClientStates == {"downloading", "uploading", "stalleddl", "pausedup", "error"}
ReportedElapsed == {0 - 60, 0, DefaultSeedHours * 3600, MAX_SEED_SECONDS + 60}
ReportedRatio == {0, 2}
(* progress >= 1.0 (leftUntilDone == 0) goes with the state the way the client
   reports it: never with a downloading state, always with an uploading one *)
DownloadStates == {"downloading", "stalleddl"}
UploadStates == {"uploading", "pausedup"}
TInfos == {t \in [state : ClientStates, elapsed : ReportedElapsed,
                  done : BOOLEAN, ratio : ReportedRatio] :
              /\ t.state \in DownloadStates => ~t.done
              /\ t.state \in UploadStates => t.done}

VARIABLES
    jobs,            \* the job table: job id -> row
    queue,           \* DownloadManager.queue
    settings,        \* the configuration store (seed target, ratio limit)
    reports,         \* the torrent client: what it may report for a torrent
    present,         \* the torrent client: jobs whose torrent it holds
    now,             \* wall clock, seconds
    crashes,         \* how often the process was stopped and started again
    wpc, wjob,       \* _worker / _process_job position and job
    wcfg,            \* the settings _process_job read for its job
    mpc,             \* _monitor position
    mlist, midx,     \* the job list of the running pass and the loop index
    pseen,           \* hashes in the get_torrents response of the poll
    pcache,          \* the session of the running monitor pass
    pmeets, pdown,   \* meets_seed_time and meets_ratio, is_downloaded
    last_sweep,      \* _last_postprocess_sweep
    sweep_running,   \* _postprocess_sweep_running
    last_cleanup,    \* _last_seed_cleanup
    ppLock,          \* _postprocess_lock
    jobLock,         \* _job_lock
    fin,             \* the _finalize_job invocations
    spawned,         \* tasks made by create_task that have not run yet
    rpc, rjob, rloaded, rcount,   \* reprocess_job position, job, loaded row, calls
    rret,            \* what the last reprocess_job call returned
    wish,            \* the wishlist requests: mam_unavailable, mam_last_check
    mamBest,         \* the tracker: torrent id of the best search result per request
    rlist,           \* the requests the running retry sweep has still to search
    instance,        \* DownloadManager._instance
    constructed,     \* how many DownloadManager objects were constructed
    gret,            \* what get_instance / get_instance_async returned to each caller
    arg, ret,        \* a call of a function of the pipeline: its input, its result
    cookie_cache,    \* QbitClient._COOKIE_CACHE: entries cookie key -> cookies
    qclient,         \* the QbitClient objects: their fields and their session's cookie jar
    qreq,            \* the _request call in progress: its position, attempt, and what it sent
    last_mam_retry,  \* _last_mam_retry
    monitor_errors,  \* "DownloadManager: monitor failed" lines in the log
    removedOK,       \* history: jobs for which a remove_torrent call returned
    removeFailed,    \* history: jobs whose retirement remove_torrent call raised
    reproSince       \* history: reprocess called since destination_path was last set

vars == <<jobs, queue, settings, reports, present, now, crashes, wpc, wjob, wcfg, mpc, mlist, midx,
          pseen, pcache, pmeets, pdown, last_sweep, sweep_running, last_cleanup,
          ppLock, jobLock, fin, spawned, rpc, rjob, rloaded, rcount, rret,
          wish, mamBest, rlist, last_mam_retry, monitor_errors,
          instance, constructed, gret, arg, ret, cookie_cache, qclient, qreq,
          removedOK, removeFailed, reproSince>>

(* ---------------------------------------------------------------------- *)
(* Rows, sessions, locks                                                   *)
(* ---------------------------------------------------------------------- *)
NewJob == [status |-> "pending", hash |-> FALSE, dest |-> NoPath,
           completed_at |-> NoTime, seed_seconds |-> 0, message |-> "Queued",
           seed_configuration |-> NoCfg, torrent_id |-> NoTorrent,
           request_id |-> NoRequest]

AbsentJob == [NewJob EXCEPT !.status = "absent", !.message = ""]

(* the torrents the jobs submitted by the download route were made for *)
RequestedTorrent == [j \in Jobs |-> IF j = "j1" THEN "ta" ELSE "tb"]
Submitted(j) == [NewJob EXCEPT !.torrent_id = RequestedTorrent[j], !.request_id = "r1"]

(* the attributes reprocess_job loads and assigns; NoRow when it is not running *)
NoRow == [status |-> "", message |-> "", completed_at |-> NoTime]

Expired == [loaded |-> FALSE, orig |-> NewJob, cur |-> NewJob]
Fresh(row) == [loaded |-> TRUE, orig |-> row, cur |-> row]
NoSession == [j \in Jobs |-> Expired]

(* the object of job j in session c, reading the row when it is expired *)
Load(c, db, j) == IF c[j].loaded THEN c[j] ELSE Fresh(db[j])

(* UPDATE of one row: the attributes that differ from the loaded values *)
Flush(row, o) ==
    [row EXCEPT !.status = IF o.cur.status # o.orig.status THEN o.cur.status ELSE @,
                !.message = IF o.cur.message # o.orig.message THEN o.cur.message ELSE @,
                !.seed_seconds = IF o.cur.seed_seconds # o.orig.seed_seconds
                                 THEN o.cur.seed_seconds ELSE @,
                !.completed_at = IF o.cur.completed_at # o.orig.completed_at
                                 THEN o.cur.completed_at ELSE @]

(* session.commit(): flush every loaded object; the session then expires all *)
Commit(c, db) == [j \in Jobs |-> IF c[j].loaded THEN Flush(db[j], c[j]) ELSE db[j]]

FreeLock == [holder |-> NoHolder, waiters |-> <<>>]

(* a faulty variant of Acquire: the lock is handed over whoever holds it *)
Acquire_Unguarded(lock, who) == [lock EXCEPT !.holder = who]

(* asyncio.Lock.acquire: taken at once when free and nobody waits, else queued *)
Acquire(lock, who) ==
    IF lock.holder = NoHolder /\ lock.waiters = <<>>
    THEN [lock EXCEPT !.holder = who]
    ELSE [lock EXCEPT !.waiters = Append(@, who)]

(* a faulty variant of Release: the lock is freed and no waiter is woken *)
Release_NoWake(lock) == [lock EXCEPT !.holder = NoHolder]

(* asyncio.Lock.release: the first waiter is woken and is the next holder *)
Release(lock) ==
    IF lock.waiters = <<>> THEN FreeLock
    ELSE [holder |-> Head(lock.waiters), waiters |-> Tail(lock.waiters)]

IdleFin == [pc |-> "idle", job |-> NoJob, lstatus |-> "", lmessage |-> ""]

(* jobs of a set in table order *)
RECURSIVE SeqOf(_, _)
SeqOf(S, i) ==
    IF i > Len(JobOrder) THEN <<>>
    ELSE IF JobOrder[i] \in S THEN <<JobOrder[i]>> \o SeqOf(S, i + 1)
    ELSE SeqOf(S, i + 1)

(* the position of a job in the table *)
RowIndex(j) == CHOOSE i \in 1..Len(JobOrder) : JobOrder[i] = j

(* build_seed_configuration: hours * 3600 and the ratio limit of the settings *)
build_seed_configuration(cfg) ==
    [required_seed_seconds |-> cfg.seed_target_hours * 3600,
     ratio_limit |-> cfg.ratio_limit]

Max(a, b) == IF a >= b THEN a ELSE b
Min(a, b) == IF a <= b THEN a ELSE b

(* ---------------------------------------------------------------------- *)
(* Initial state                                                           *)
(* ---------------------------------------------------------------------- *)
(* the jobs of S were created pending and submitted; the others do not exist *)
InitJobs(S, cfgs, reps) ==
    /\ jobs = [j \in Jobs |-> IF j \in S THEN Submitted(j) ELSE AbsentJob]
    /\ queue = SeqOf(S, 1)
    /\ settings \in cfgs
    /\ reports = reps
    /\ present = {}
    /\ now = 0 /\ crashes = 0
    /\ wpc = "idle" /\ wjob = NoJob /\ wcfg = NoSettings
    /\ mpc = "sleep" /\ mlist = <<>> /\ midx = 0
    /\ pseen = {} /\ pcache = NoSession /\ pmeets = FALSE /\ pdown = FALSE
    /\ last_sweep = NoTime /\ sweep_running = FALSE /\ last_cleanup = NoTime
    /\ ppLock = FreeLock /\ jobLock = FreeLock
    /\ fin = [t \in TaskIds |-> IdleFin]
    /\ spawned = <<>>
    /\ rpc = "idle" /\ rjob = NoJob /\ rloaded = NoRow /\ rcount = 0 /\ rret = "none"
    /\ last_mam_retry = NoTime /\ monitor_errors = 0 /\ rlist = <<>>
    /\ instance = NoInstance /\ constructed = 0 /\ gret = [c \in Callers |-> NotCalled]
    /\ cookie_cache = {} /\ qclient = [q \in QbitIds |-> NoClient] /\ qreq = NoCallInFlight
    /\ removedOK = {}
    /\ removeFailed = {}
    /\ reproSince = [j \in Jobs |-> FALSE]

(* no wishlist request is marked unavailable; no function call is looked at *)
InitWith(S, cfgs, reps) ==
    /\ InitJobs(S, cfgs, reps)
    /\ arg = NoCall /\ ret = NoCall
    /\ wish = [r \in Requests |-> NoWish]
    /\ mamBest = [r \in Requests |-> NoTorrent]

workerVars == <<wpc, wjob, wcfg>>
qbitVars == <<cookie_cache, qclient, qreq>>
callVars == <<instance, constructed, gret, arg, ret, qbitVars>>
wishVars == <<wish, mamBest, monitor_errors, rlist, callVars>>
monitorVars == <<mpc, mlist, midx, pseen, pcache, pmeets, pdown,
                 last_sweep, sweep_running, last_cleanup>>
lockVars == <<ppLock, jobLock, fin, spawned>>
reprocessVars == <<rpc, rjob, rloaded, rcount, rret>>
clockVars == <<now, crashes>>
historyVars == <<removedOK, removeFailed, reproSince>>

(* ---------------------------------------------------------------------- *)
(* The event loop                                                          *)
(* ---------------------------------------------------------------------- *)
(* the monitor task is suspended at an await: between two awaits its code runs
   without any other task running *)
MonitorSuspended == mpc \notin {"poll_update", "sweep", "sweep_next", "cleanup"}

(* a task made by create_task runs its first step when its creator suspends,
   before the creator is resumed *)
MonitorResumable == spawned = <<>>

(* ---------------------------------------------------------------------- *)
(* The wall clock                                                          *)
(* ---------------------------------------------------------------------- *)
Tick ==
    /\ MonitorSuspended
    /\ now < MaxTicks * TickStep
    /\ now' = now + TickStep
    /\ UNCHANGED <<crashes, jobs, queue, settings, wishVars, last_mam_retry, reports, present, workerVars, monitorVars,
                   lockVars, reprocessVars, historyVars>>

(* a quarter of an hour passes *)
TickQuarter ==
    /\ MonitorSuspended
    /\ now < MaxQuarters * SweepInterval
    /\ now' = now + SweepInterval
    /\ UNCHANGED <<crashes, jobs, queue, settings, wishVars, last_mam_retry, reports, present,
                   workerVars, monitorVars, lockVars, reprocessVars, historyVars>>

(* a day passes *)
TickDay ==
    /\ MonitorSuspended
    /\ now < MaxTicks * TickStep
    /\ now' = now + 24 * 3600
    /\ UNCHANGED <<crashes, jobs, queue, settings, wishVars, last_mam_retry, reports, present,
                   workerVars, monitorVars, lockVars, reprocessVars, historyVars>>

(* ---------------------------------------------------------------------- *)
(* The process and the torrent client                                      *)
(* ---------------------------------------------------------------------- *)
(* the process is stopped with its tasks wherever they are and started again:
   a new DownloadManager with an empty queue, free locks and no "last ran at"
   time, its worker and monitor tasks started; the job table and the torrent
   client keep what they had *)
Restart ==
    /\ crashes < MaxCrashes
    /\ crashes' = crashes + 1
    /\ queue' = <<>>
    /\ wpc' = "idle" /\ wjob' = NoJob /\ wcfg' = NoSettings
    /\ mpc' = "sleep" /\ mlist' = <<>> /\ midx' = 0
    /\ pseen' = {} /\ pcache' = NoSession /\ pmeets' = FALSE /\ pdown' = FALSE
    /\ last_sweep' = NoTime /\ sweep_running' = FALSE /\ last_cleanup' = NoTime
    /\ ppLock' = FreeLock /\ jobLock' = FreeLock
    /\ fin' = [t \in TaskIds |-> IdleFin]
    /\ spawned' = <<>>
    /\ rpc' = "idle" /\ rjob' = NoJob /\ rloaded' = NoRow
    /\ last_mam_retry' = NoTime /\ rlist' = <<>>
    /\ UNCHANGED <<jobs, settings, wish, mamBest, monitor_errors, callVars, reports, present,
                   now, rcount, rret, historyVars>>

(* the torrent of a job is taken out of the client by its user: get_torrents
   no longer has it in its answer *)
ClientDropsTorrent(j) ==
    /\ MonitorSuspended
    /\ j \in present
    /\ present' = present \ {j}
    /\ UNCHANGED <<jobs, queue, settings, wishVars, last_mam_retry, reports, clockVars, workerVars, monitorVars,
                   lockVars, reprocessVars, historyVars>>

(* the settings form is saved: the seed target is always written, the ratio
   limit only when the form has one *)
SettingsChange ==
    /\ MonitorSuspended
    /\ \E new \in SettingsSet :
        /\ new # settings
        /\ settings.ratio_limit # NoRatio => new.ratio_limit # NoRatio
        /\ settings' = new
    /\ UNCHANGED <<jobs, queue, wishVars, last_mam_retry, reports, present, clockVars,
                   workerVars, monitorVars, lockVars, reprocessVars, historyVars>>

(* ---------------------------------------------------------------------- *)
(* _worker / _process_job                                                  *)
(* ---------------------------------------------------------------------- *)
(* queue.get(), then _process_job up to the await of download_torrent *)
WorkerDequeue ==
    /\ MonitorSuspended
    /\ wpc = "idle" /\ queue # <<>>
    /\ LET j == Head(queue) IN
        /\ queue' = Tail(queue)
        /\ jobs' = [jobs EXCEPT ![j].status = "downloading",
                                ![j].message = "Downloading torrent metadata"]
        /\ wpc' = "adding" /\ wjob' = j /\ wcfg' = settings
    /\ UNCHANGED <<settings, wishVars, last_mam_retry, reports, present, clockVars, monitorVars, lockVars,
                   reprocessVars, historyVars>>

(* queue.get(), then _process_job finds that the settings cannot be loaded or
   hold no MAM session id, and returns *)
NotConfiguredMessages == {"Failed to load MAM settings", "MAM session ID not configured"}
WorkerNotConfigured ==
    /\ MonitorSuspended
    /\ wpc = "idle" /\ queue # <<>>
    /\ LET j == Head(queue) IN
        /\ queue' = Tail(queue)
        /\ \E m \in NotConfiguredMessages :
              jobs' = [jobs EXCEPT ![j].status = "failed", ![j].message = m]
    /\ UNCHANGED <<settings, wishVars, last_mam_retry, reports, present, clockVars, workerVars,
                   monitorVars, lockVars, reprocessVars, historyVars>>

(* download_torrent and add_torrent returned a hash *)
WorkerAdded ==
    /\ MonitorSuspended
    /\ wpc = "adding"
    /\ jobs' = [jobs EXCEPT ![wjob].hash = TRUE,
                            ![wjob].seed_configuration = build_seed_configuration(wcfg),
                            ![wjob].status = "seeding",
                            ![wjob].message = "Added to qbittorrent"]
    /\ present' = present \cup {wjob}
    /\ wpc' = "limits"
    /\ UNCHANGED <<queue, settings, wishVars, last_mam_retry, reports, wjob, wcfg, clockVars, monitorVars, lockVars,
                   reprocessVars, historyVars>>

(* download_torrent or add_torrent raised, or no hash was obtained *)
WorkerAddFailed ==
    /\ MonitorSuspended
    /\ wpc = "adding"
    /\ jobs' = [jobs EXCEPT ![wjob].status = "failed",
                            ![wjob].message = "Processing failed"]
    /\ wpc' = "idle" /\ wjob' = NoJob /\ wcfg' = NoSettings
    /\ UNCHANGED <<queue, settings, wishVars, last_mam_retry, reports, present, clockVars, monitorVars, lockVars,
                   reprocessVars, historyVars>>

(* set_share_limits returned (an HTTPStatusError is logged inside it) *)
WorkerLimitsDone ==
    /\ MonitorSuspended
    /\ wpc = "limits"
    /\ wpc' = "idle" /\ wjob' = NoJob /\ wcfg' = NoSettings
    /\ UNCHANGED <<jobs, queue, settings, wishVars, last_mam_retry, reports, present, clockVars, monitorVars, lockVars,
                   reprocessVars, historyVars>>

(* set_share_limits raised something else (authentication, network) *)
WorkerLimitsFailed ==
    /\ MonitorSuspended
    /\ wpc = "limits"
    /\ jobs' = [jobs EXCEPT ![wjob].status = "failed",
                            ![wjob].message = "Processing failed"]
    /\ wpc' = "idle" /\ wjob' = NoJob /\ wcfg' = NoSettings
    /\ UNCHANGED <<queue, settings, wishVars, last_mam_retry, reports, present, clockVars, monitorVars, lockVars,
                   reprocessVars, historyVars>>

(* queue.get(), then a statement of _process_job outside its own try (the
   session.get of the job, the load of the settings, the commit of
   `downloading`) raises: the exception reaches the handler of _worker and the
   row is as it was *)
WorkerRaised ==
    /\ MonitorSuspended
    /\ wpc = "idle" /\ queue # <<>>
    /\ queue' = Tail(queue)
    /\ wpc' = "handler" /\ wjob' = Head(queue)
    /\ UNCHANGED <<jobs, wcfg, settings, wishVars, last_mam_retry, reports, present, clockVars,
                   monitorVars, lockVars, reprocessVars, historyVars>>

(* the handler of _worker loads the job in a new session and commits `failed`;
   task_done, and the loop goes on *)
WorkerHandled ==
    /\ MonitorSuspended
    /\ wpc = "handler"
    /\ jobs' = [jobs EXCEPT ![wjob].status = "failed", ![wjob].message = "Job failed"]
    /\ wpc' = "idle" /\ wjob' = NoJob
    /\ UNCHANGED <<queue, wcfg, settings, wishVars, last_mam_retry, reports, present, clockVars,
                   monitorVars, lockVars, reprocessVars, historyVars>>

(* session.get or session.commit of the handler raises as well: the exception
   leaves the except block, task_done runs, and the exception ends _worker;
   start() makes no second worker *)
WorkerHandlerRaised ==
    /\ MonitorSuspended
    /\ wpc = "handler"
    /\ wpc' = "dead" /\ wjob' = NoJob
    /\ UNCHANGED <<jobs, queue, wcfg, settings, wishVars, last_mam_retry, reports, present, clockVars,
                   monitorVars, lockVars, reprocessVars, historyVars>>

(* ---------------------------------------------------------------------- *)
(* _finalize_job                                                           *)
(* ---------------------------------------------------------------------- *)
(* the messages _finalize_job assigns *)
FinFailMessages == {"Post-processing failed: error",
                    "Post-processing failed: Timed out after 30 minutes"}
(* f"Processed -> {destination}" *)
ProcessedMessage(d) == IF d = "out" THEN "Processed -> out" ELSE "Processed -> out_jobid"
FinMessages == FinFailMessages \cup {ProcessedMessage(d) : d \in Paths}

(* the status and message of the row as _finalize_job loaded it, kept as far as
   its UPDATE depends on them: an assignment of the loaded value writes nothing *)
LoadedStatus(row) == IF row.status = "seeding" THEN "seeding" ELSE "other"
LoadedMessage(row) == IF row.message \in FinMessages THEN row.message ELSE "other"

WaitingFin(pc, j) == [pc |-> pc, job |-> j, lstatus |-> "", lmessage |-> ""]

(* the job lock part of `async with self._postprocess_lock, self._job_lock`,
   then session.get of the job when the lock was free *)
EnterJob(t, j, pp, jl, f, db) ==
    LET jl1 == Acquire(jl, t) IN
    IF jl1.holder = t
    THEN [pp |-> pp, jl |-> jl1,
          fin |-> [f EXCEPT ![t] = [pc |-> "process", job |-> j,
                                    lstatus |-> LoadedStatus(db[j]),
                                    lmessage |-> LoadedMessage(db[j])]]]
    ELSE [pp |-> pp, jl |-> jl1, fin |-> [f EXCEPT ![t] = WaitingFin("want_job", j)]]

(* the call of _finalize_job up to its first suspension *)
EnterFinalize(t, j, pp, jl, f, db) ==
    LET pp1 == Acquire(pp, t) IN
    IF pp1.holder = t
    THEN EnterJob(t, j, pp1, jl, f, db)
    ELSE [pp |-> pp1, jl |-> jl, fin |-> [f EXCEPT ![t] = WaitingFin("want_pp", j)]]

(* a task made by create_task starts running *)
TaskStart ==
    /\ MonitorSuspended
    /\ spawned # <<>>
    /\ LET e == Head(spawned)
           r == EnterFinalize(e.task, e.job, ppLock, jobLock, fin, jobs) IN
        /\ ppLock' = r.pp /\ jobLock' = r.jl /\ fin' = r.fin
    /\ spawned' = Tail(spawned)
    /\ UNCHANGED <<jobs, queue, settings, wishVars, last_mam_retry, reports, present, clockVars, workerVars, monitorVars,
                   reprocessVars, historyVars>>

(* a waiter of the post-process lock was woken *)
FinGotPP(t) ==
    /\ MonitorSuspended
    /\ fin[t].pc = "want_pp" /\ ppLock.holder = t
    /\ LET r == EnterJob(t, fin[t].job, ppLock, jobLock, fin, jobs) IN
        /\ ppLock' = r.pp /\ jobLock' = r.jl /\ fin' = r.fin
    /\ UNCHANGED <<jobs, queue, settings, wishVars, last_mam_retry, reports, present, clockVars, workerVars, monitorVars,
                   spawned, reprocessVars, historyVars>>

(* a waiter of the job lock was woken *)
FinGotJob(t) ==
    /\ MonitorSuspended
    /\ fin[t].pc = "want_job" /\ jobLock.holder = t
    /\ fin' = [fin EXCEPT ![t] = [pc |-> "process", job |-> fin[t].job,
                                  lstatus |-> LoadedStatus(jobs[fin[t].job]),
                                  lmessage |-> LoadedMessage(jobs[fin[t].job])]]
    /\ UNCHANGED <<jobs, queue, settings, wishVars, last_mam_retry, reports, present, clockVars, workerVars, monitorVars,
                   ppLock, jobLock, spawned, reprocessVars, historyVars>>

(* the caller that awaits _finalize_job inline goes on *)
CallerResumes(t) ==
    /\ mpc' = IF t = "sweep" THEN "sweep_next" ELSE mpc
    /\ rpc' = IF t = "reprocess" THEN "idle" ELSE rpc
    /\ rret' = IF t = "reprocess" THEN "true" ELSE rret

FinRelease(t) ==
    /\ jobLock' = Release(jobLock)
    /\ ppLock' = Release(ppLock)
    /\ fin' = [fin EXCEPT ![t] = IdleFin]

(* processor.process returned the destination *)
FinSucceeded(t) ==
    /\ MonitorSuspended
    /\ fin[t].pc = "process"
    /\ \E d \in Paths :
        LET j == fin[t].job
            row == [jobs[j] EXCEPT
                      !.status = IF fin[t].lstatus # "seeding" THEN "seeding" ELSE @,
                      !.dest = d,
                      !.message = IF fin[t].lmessage # ProcessedMessage(d)
                                  THEN ProcessedMessage(d) ELSE @,
                      !.completed_at = now] IN
        /\ jobs' = [jobs EXCEPT ![j] = row]
        /\ reproSince' = [reproSince EXCEPT ![j] = FALSE]
    /\ FinRelease(t)
    /\ CallerResumes(t)
    /\ UNCHANGED <<queue, settings, wishVars, last_mam_retry, reports, present, clockVars, workerVars, mlist, midx, pseen,
                   pcache, pmeets, pdown, last_sweep, sweep_running, last_cleanup,
                   spawned, rjob, rloaded, rcount, removedOK, removeFailed>>

(* a faulty variant of FinFailed: the handler marks the job failed *)
FinFailed_MarksFailed(t) ==
    /\ MonitorSuspended
    /\ fin[t].pc = "process"
    /\ \E m \in FinFailMessages :
        LET j == fin[t].job
            row == [jobs[j] EXCEPT
                      !.status = "failed",
                      !.message = IF fin[t].lmessage # m THEN m ELSE @] IN
        /\ jobs' = [jobs EXCEPT ![j] = row]
    /\ FinRelease(t)
    /\ CallerResumes(t)
    /\ UNCHANGED <<queue, settings, wishVars, last_mam_retry, reports, present, clockVars, workerVars, mlist, midx, pseen,
                   pcache, pmeets, pdown, last_sweep, sweep_running, last_cleanup,
                   spawned, rjob, rloaded, rcount, removedOK, removeFailed, reproSince>>

(* processor.process raised or timed out (asyncio.wait_for, 30 minutes) *)
FinFailed(t) ==
    /\ MonitorSuspended
    /\ fin[t].pc = "process"
    /\ \E m \in FinFailMessages :
        LET j == fin[t].job
            row == [jobs[j] EXCEPT
                      !.status = IF fin[t].lstatus # "seeding" THEN "seeding" ELSE @,
                      !.message = IF fin[t].lmessage # m THEN m ELSE @] IN
        /\ jobs' = [jobs EXCEPT ![j] = row]
    /\ FinRelease(t)
    /\ CallerResumes(t)
    /\ UNCHANGED <<queue, settings, wishVars, last_mam_retry, reports, present, clockVars, workerVars, mlist, midx, pseen,
                   pcache, pmeets, pdown, last_sweep, sweep_running, last_cleanup,
                   spawned, rjob, rloaded, rcount, removedOK, removeFailed, reproSince>>

(* ---------------------------------------------------------------------- *)
(* _monitor: sleep, then the passes of one cycle in order                  *)
(* ---------------------------------------------------------------------- *)
retryFrame == <<callVars, settings, reports, present, clockVars, workerVars, mlist, midx,
                pseen, pcache, pmeets, pdown, last_sweep, sweep_running, last_cleanup,
                lockVars, reprocessVars, historyVars>>

(* the hourly gate of _maybe_retry_unavailable *)
(* a faulty variant of RetryGateOpen: no gate *)
RetryGateOpen_Always == TRUE

(* `if self._last_mam_retry and (now - self._last_mam_retry) < 3600: return` *)
RetryGateOpen == last_mam_retry = NoTime \/ now - last_mam_retry >= RetryGate

(* the wishlist request is selected: marked unavailable and not checked within
   the retry interval (it is not downloaded and has a user; a MAM session id
   is configured) *)
RetryPending(r) ==
    /\ wish[r].mam_unavailable
    /\ wish[r].mam_last_check = NoTime
          \/ wish[r].mam_last_check <= now - RetryIntervalHours * 3600

(* pending[:5]: the selected requests in table order, the first five *)
RECURSIVE RetrySelected(_, _)
RetrySelected(i, n) ==
    IF i > Len(RequestOrder) \/ n = 0 THEN <<>>
    ELSE IF RetryPending(RequestOrder[i])
         THEN <<RequestOrder[i]>> \o RetrySelected(i + 1, n - 1)
         ELSE RetrySelected(i + 1, n)

(* asyncio.sleep(60) returned; _maybe_retry_unavailable up to its first await:
   it returns at once when the gate is closed or nothing is selected *)
MonitorSleep ==
    /\ MonitorResumable
    /\ mpc = "sleep"
    /\ IF RetryGateOpen
       THEN /\ last_mam_retry' = now
            /\ rlist' = RetrySelected(1, RetryBatch)
            /\ mpc' = IF rlist' # <<>> THEN "retry_search" ELSE "poll"
       ELSE /\ mpc' = "poll"
            /\ UNCHANGED <<last_mam_retry, rlist>>
    /\ UNCHANGED <<jobs, queue, wish, mamBest, monitor_errors, retryFrame>>

(* ---------------------------------------------------------------------- *)
(* _maybe_retry_unavailable                                                *)
(* ---------------------------------------------------------------------- *)
ActiveStatuses == {"pending", "downloading", "seeding", "processing"}

(* a faulty variant of ExistingJob: only pending jobs count *)
ExistingJob_PendingOnly(db, r, torrent_id) ==
    \E j \in Jobs : /\ db[j].request_id = r /\ db[j].torrent_id = torrent_id
                     /\ db[j].status = "pending"

(* the duplicate check: an active job of the request for the torrent *)
ExistingJob(db, r, torrent_id) ==
    \E j \in Jobs : /\ db[j].request_id = r /\ db[j].torrent_id = torrent_id
                     /\ db[j].status \in ActiveStatuses

(* the id of the next row of the job table *)
NextJobId(db) ==
    CHOOSE j \in Jobs : /\ db[j].status = "absent"
                        /\ \A k \in Jobs : db[k].status = "absent" => RowIndex(j) <= RowIndex(k)

(* the download route (download_mam; auto_download_mam has the same check):
   nothing when an active job of the request for the torrent exists, else a
   pending job is committed and submitted *)
DownloadMam(r, torrent_id) ==
    /\ MonitorSuspended
    /\ ~ExistingJob(jobs, r, torrent_id)
    /\ \E j \in Jobs : jobs[j].status = "absent"
    /\ LET j == NextJobId(jobs) IN
        /\ jobs' = [jobs EXCEPT ![j] = [NewJob EXCEPT !.request_id = r,
                                                     !.torrent_id = torrent_id,
                                                     !.message = "Queued for download"]]
        /\ queue' = Append(queue, j)
    /\ UNCHANGED <<settings, wishVars, last_mam_retry, reports, present, clockVars, workerVars,
                   monitorVars, lockVars, reprocessVars, historyVars>>

(* the loop of the sweep goes on with the next selected request, or the sweep
   returns and the poll follows *)
RetryAdvance ==
    /\ rlist' = Tail(rlist)
    /\ mpc' = IF Tail(rlist) # <<>> THEN "retry_search" ELSE "poll"

(* a faulty variant of RetrySearchFailed: the failure ends the sweep *)
RetrySearchFailed_Aborts ==
    /\ MonitorResumable
    /\ mpc = "retry_search"
    /\ mamBest[Head(rlist)] = Unreachable
    /\ wish' = [wish EXCEPT ![Head(rlist)].mam_last_check = last_mam_retry]
    /\ rlist' = <<>> /\ mpc' = "poll"
    /\ UNCHANGED <<jobs, queue, mamBest, monitor_errors, last_mam_retry, retryFrame>>

(* client.search answered for the first request of the list; the rest of the
   loop body: queue.put on the unbounded queue does not suspend *)
RetrySearched ==
    /\ MonitorResumable
    /\ mpc = "retry_search"
    /\ LET r == Head(rlist)
           best == mamBest[r] IN
        /\ best # Unreachable
        /\ IF best = NoTorrent
           THEN /\ wish' = [wish EXCEPT ![r].mam_last_check = last_mam_retry]
                /\ UNCHANGED <<jobs, queue>>
           ELSE IF ExistingJob(jobs, r, best)
           THEN /\ wish' = [wish EXCEPT ![r] = [mam_unavailable |-> FALSE,
                                                 mam_last_check |-> last_mam_retry]]
                /\ UNCHANGED <<jobs, queue>>
           ELSE /\ \E j \in Jobs : jobs[j].status = "absent"
                /\ LET j == NextJobId(jobs) IN
                    /\ jobs' = [jobs EXCEPT ![j] = [NewJob EXCEPT
                                                      !.request_id = r,
                                                      !.torrent_id = best,
                                                      !.message = "Queued via MAM retry"]]
                    /\ queue' = Append(queue, j)
                /\ wish' = [wish EXCEPT ![r] = [mam_unavailable |-> FALSE,
                                                 mam_last_check |-> last_mam_retry]]
    /\ RetryAdvance
    /\ UNCHANGED <<mamBest, monitor_errors, last_mam_retry, retryFrame>>

(* client.search raised: logged, the check is recorded, the loop continues *)
RetrySearchFailed ==
    /\ MonitorResumable
    /\ mpc = "retry_search"
    /\ mamBest[Head(rlist)] = Unreachable
    /\ wish' = [wish EXCEPT ![Head(rlist)].mam_last_check = last_mam_retry]
    /\ RetryAdvance
    /\ UNCHANGED <<jobs, queue, mamBest, monitor_errors, last_mam_retry, retryFrame>>

(* the tracker's answer for a request on the retry list changes *)
MamChanges(r) ==
    /\ MonitorSuspended
    /\ wish[r].mam_unavailable
    /\ \E b \in MamAnswers : b # mamBest[r] /\ mamBest' = [mamBest EXCEPT ![r] = b]
    /\ UNCHANGED <<jobs, queue, wish, rlist, monitor_errors, last_mam_retry, mpc, retryFrame>>

(* ---------------------------------------------------------------------- *)
(* DownloadManager.get_instance / get_instance_async                       *)
(* ---------------------------------------------------------------------- *)
managerVars_noqbit == <<jobs, queue, settings, reports, present, clockVars, workerVars,
                        monitorVars, lockVars, reprocessVars, historyVars, wish, mamBest,
                        monitor_errors, rlist, last_mam_retry>>
managerVars == <<managerVars_noqbit, qbitVars>>

(* a faulty variant of NeedsInstance: no check of _instance *)
NeedsInstance_Always == TRUE

(* `if cls._instance is None` *)
NeedsInstance == instance = NoInstance

(* the accessor constructs the DownloadManager when there is none and returns
   _instance; the constructor does not await *)
Obtain(c, via) ==
    /\ gret[c] = NotCalled
    /\ IF NeedsInstance
       THEN constructed' = constructed + 1 /\ instance' = constructed + 1
       ELSE UNCHANGED <<constructed, instance>>
    /\ gret' = [gret EXCEPT ![c] = [via |-> via, inst |-> instance']]
    /\ UNCHANGED <<arg, ret, managerVars>>

(* get_instance: check, construct, return without an await *)
GetInstance(c) == Obtain(c, "sync")

(* get_instance_async: the first check, then `async with _instance_lock`
   around the second check and the construction; no task holds the lock at an
   await, so the lock is free and acquire() returns without suspending *)
GetInstanceAsync(c) == Obtain(c, "async")

(* ---------------------------------------------------------------------- *)
(* _finalize_job: the path mapping of the download directory               *)
(* ---------------------------------------------------------------------- *)
(* a string is a sequence of characters; these are the ones of the
   directories below *)
DirChars == {"/", "r", "x"}

Drop(s, n) == SubSeq(s, n + 1, Len(s))

(* str.startswith *)
StartsWith(s, p) == Len(p) <= Len(s) /\ SubSeq(s, 1, Len(p)) = p

(* str.rstrip("/") and str.lstrip("/") *)
RECURSIVE RStripSlash(_)
RStripSlash(s) ==
    IF s # <<>> /\ s[Len(s)] = "/" THEN RStripSlash(SubSeq(s, 1, Len(s) - 1)) ELSE s
RECURSIVE LStripSlash(_)
LStripSlash(s) == IF s # <<>> /\ Head(s) = "/" THEN LStripSlash(Tail(s)) ELSE s

(* the components of a path: the pieces between the slashes, empty ones dropped *)
RECURSIVE Parts(_, _)
Parts(s, cur) ==
    IF s = <<>> THEN (IF cur = <<>> THEN <<>> ELSE <<cur>>)
    ELSE IF Head(s) = "/"
         THEN (IF cur = <<>> THEN <<>> ELSE <<cur>>) \o Parts(Tail(s), <<>>)
         ELSE Parts(Tail(s), Append(cur, Head(s)))

(* str(Path(a) / b) for a relative b: the components of both, joined by one
   slash, absolute when a is *)
RECURSIVE JoinParts(_)
JoinParts(ps) ==
    IF ps = <<>> THEN <<>>
    ELSE IF Len(ps) = 1 THEN ps[1]
    ELSE ps[1] \o <<"/">> \o JoinParts(Tail(ps))
PathJoin(a, b) ==
    (IF a # <<>> /\ Head(a) = "/" THEN <<"/">> ELSE <<>>)
        \o JoinParts(Parts(a, <<>>) \o Parts(b, <<>>))

(* a faulty variant of MappedDir: the directory is never rewritten *)
MappedDir_Unmapped(download_dir, remote_cfg, local_cfg) == download_dir

(* the download directory handed to the post-processor *)
MappedDir(download_dir, remote_cfg, local_cfg) ==
    LET remote_prefix == RStripSlash(remote_cfg)
        local_prefix == RStripSlash(local_cfg) IN
    IF /\ download_dir # <<>> /\ remote_prefix # <<>> /\ local_prefix # <<>>
       /\ StartsWith(download_dir, remote_prefix)
    THEN LET suffix == IF remote_prefix # <<"/">>
                       THEN Drop(download_dir, Len(remote_prefix))
                       ELSE download_dir
         IN PathJoin(local_prefix, LStripSlash(suffix))
    ELSE download_dir

(* the finalization maps the directory of its snapshot *)
FinalizeMapsPath ==
    /\ ~ret.done
    /\ ret' = Returned(MappedDir(arg.dir, arg.remote, arg.local))
    /\ UNCHANGED <<arg, instance, constructed, gret, managerVars>>

(* ---------------------------------------------------------------------- *)
(* PostProcessor._merge_with_ffmpeg                                        *)
(* ---------------------------------------------------------------------- *)
Newline == "\n"
Quote == "'"
NameChars == {"a", Quote, Newline}

(* file.as_posix().replace("'", "'\''") *)
RECURSIVE EscapeQuotes(_)
EscapeQuotes(name) ==
    IF name = <<>> THEN <<>>
    ELSE (IF Head(name) = Quote THEN <<Quote, "\\", Quote, Quote>> ELSE <<Head(name)>>)
            \o EscapeQuotes(Tail(name))

(* the concat list: one line `file '<path>'` per input file *)
RECURSIVE ConcatList(_)
ConcatList(files) ==
    IF files = <<>> THEN <<>>
    ELSE <<"f", "i", "l", "e", " ", Quote>> \o EscapeQuotes(Head(files))
            \o <<Quote, Newline>> \o ConcatList(Tail(files))

(* the list is written, ffmpeg is run on it, and PostProcessingError is raised
   when ffmpeg ends with a return code other than 0 *)
MergeWithFfmpeg ==
    /\ ~ret.done
    /\ \E returncode \in {0, 1} :
          ret' = Returned([invoked |-> TRUE, list |-> ConcatList(arg.files),
                           raised |-> returncode # 0])
    /\ UNCHANGED <<arg, instance, constructed, gret, managerVars>>

(* ---------------------------------------------------------------------- *)
(* PostProcessor._extract_metadata                                         *)
(* ---------------------------------------------------------------------- *)
People == {"a", "b", "n"}
MaxPeople == 2
UnknownAuthor == <<"U", "n", "k", "n", "o", "w", "n", " ", "A", "u", "t", "h", "o", "r">>
NoTag == [set |-> FALSE]
Tag(v) == [set |-> TRUE, value |-> v]

(* ", ".join(names) *)
RECURSIVE CommaJoin(_)
CommaJoin(names) ==
    IF names = <<>> THEN <<>>
    ELSE IF Len(names) = 1 THEN Head(names)
    ELSE Head(names) \o <<",", " ">> \o CommaJoin(Tail(names))

(* the ffmpeg tags derived from the request's authors and narrators *)
FfmpegTags(request) ==
    LET authors == IF request.authors # <<>> THEN request.authors ELSE <<UnknownAuthor>>
        narrators == request.narrators
        primary_author == IF authors # <<>> THEN authors[1] ELSE <<>>
    IN  [artist |-> CommaJoin(IF narrators # <<>> THEN narrators ELSE authors),
         album_artist |-> IF primary_author # <<>> THEN primary_author
                          ELSE CommaJoin(authors),
         composer |-> IF narrators # <<>> THEN Tag(CommaJoin(narrators)) ELSE NoTag]

ExtractMetadata ==
    /\ ~ret.done
    /\ ret' = Returned(FfmpegTags(arg))
    /\ UNCHANGED <<arg, instance, constructed, gret, managerVars>>

(* ---------------------------------------------------------------------- *)
(* QbitClient: the cookie cache                                            *)
(* ---------------------------------------------------------------------- *)
(* a cache entry: the key, the cookies (the account of the session), and as
   history the credentials of the client that stored it *)
CacheHas(k) == \E e \in cookie_cache : e.key = k
CacheGet(k) == CHOOSE e \in cookie_cache : e.key = k
CachePut(k, cookies, by) ==
    {e \in cookie_cache : e.key # k} \cup {[key |-> k, cookies |-> cookies, by |-> by]}

(* self._cookie_key = self._base_url *)
CookieKey(base_url, username, password) == base_url

(* __init__: the fields are set, then _load_cached_cookies puts the cached
   cookies of the key into the session's jar and sets _authenticated *)
QbitInit(q, url, username, password) ==
    /\ ~qclient[q].made
    /\ LET base_url == RStripSlash(url)
           key == CookieKey(base_url, username, password)
           fresh == [made |-> TRUE, base_url |-> base_url, username |-> username,
                     password |-> password, cookie_key |-> key,
                     authenticated |-> FALSE, jar |-> NoCookies, cached |-> NoCreds]
       IN  qclient' = [qclient EXCEPT ![q] =
                IF CacheHas(key)
                THEN [fresh EXCEPT !.jar = CacheGet(key).cookies,
                                   !.authenticated = TRUE,
                                   !.cached = CacheGet(key).by]
                ELSE fresh]
    /\ UNCHANGED <<cookie_cache, qreq, arg, ret, instance, constructed, gret, managerVars_noqbit>>

(* _login: nothing when already authenticated; the WebUI answers "Ok." and
   sets the session cookie for a known account, and then the cookies of the
   jar are stored under the key; otherwise AuthenticationError is raised *)
QbitLogin(q) ==
    /\ qclient[q].made /\ ~qclient[q].authenticated
    /\ <<qclient[q].username, qclient[q].password>> \in Accounts
    /\ qclient' = [qclient EXCEPT ![q].authenticated = TRUE, ![q].jar = qclient[q].username]
    /\ cookie_cache' = CachePut(qclient[q].cookie_key, qclient[q].username,
                                <<qclient[q].username, qclient[q].password>>)
    /\ UNCHANGED <<qreq, arg, ret, instance, constructed, gret, managerVars_noqbit>>

(* _handle_forbidden: a request was answered 403 *)
QbitForbidden(q) ==
    /\ qclient[q].made /\ qclient[q].authenticated
    /\ qclient' = [qclient EXCEPT ![q].authenticated = FALSE]
    /\ UNCHANGED <<cookie_cache, qreq, arg, ret, instance, constructed, gret, managerVars_noqbit>>

(* ---------------------------------------------------------------------- *)
(* QbitClient._request                                                     *)
(* ---------------------------------------------------------------------- *)
(* what the WebUI answers: the status, and whether a 409 body names the queue *)
Statuses == {200, 401, 403, 409, 500}
Responses == [status : Statuses, queue : BOOLEAN]

(* _handle_http_error: the error raised for a status of 400 and above *)
HandleHttpError(resp) ==
    IF resp.status \in {401, 403} THEN "AuthenticationError"
    ELSE IF resp.status = 409 /\ resp.queue THEN "QueueingDisabledError"
    ELSE "HTTPStatusError"

(* _decode_response: the body, or the error of _handle_http_error *)
DecodeResponse(resp) ==
    IF resp.status >= 400 THEN HandleHttpError(resp) ELSE "returned"

(* a faulty variant of RetryOnForbidden: every 403 is answered by a re-login *)
RetryOnForbidden_Always(resp, attempt) == resp.status = 403

(* if resp.status == 403 and attempt == 0 *)
RetryOnForbidden(resp, attempt) == resp.status = 403 /\ attempt = 0

(* a call of _request on a constructed client enters the loop: attempt 0 *)
RequestStart(q) ==
    /\ qclient[q].made /\ qreq.pc = "idle"
    /\ qreq' = [NoCallInFlight EXCEPT !.pc = "send", !.client = q]
    /\ UNCHANGED <<cookie_cache, qclient, arg, ret, instance, constructed, gret, managerVars_noqbit>>

(* self._session.request answers: a 403 on the first attempt clears
   _authenticated and posts the login (_handle_forbidden); any other answer
   is decoded and ends the call *)
RequestAnswered(resp) ==
    /\ qreq.pc = "send"
    /\ LET q == qreq.client
           seen == [qreq EXCEPT !.sent = @ + 1, !.statuses = Append(@, resp.status)]
       IN  IF RetryOnForbidden(resp, qreq.attempt)
           THEN /\ qclient' = [qclient EXCEPT ![q].authenticated = FALSE]
                /\ qreq' = [seen EXCEPT !.pc = "login", !.logins = @ + 1]
           ELSE /\ qreq' = [seen EXCEPT !.pc = "done", !.outcome = DecodeResponse(resp)]
                /\ UNCHANGED qclient
    /\ UNCHANGED <<cookie_cache, arg, ret, instance, constructed, gret, managerVars_noqbit>>

(* self._session.request raises ClientError: QbitClientError *)
RequestUnreachable ==
    /\ qreq.pc = "send"
    /\ qreq' = [qreq EXCEPT !.pc = "done", !.sent = @ + 1, !.outcome = "QbitClientError"]
    /\ UNCHANGED <<cookie_cache, qclient, arg, ret, instance, constructed, gret, managerVars_noqbit>>

(* for attempt in range(2) *)
Attempts == 2

(* the forced login is answered "Ok.": _authenticated, the cookies are
   persisted, and `continue` starts the next attempt; after the last one
   the loop is left and AuthenticationError raised *)
RequestLoginOk ==
    /\ qreq.pc = "login"
    /\ LET q == qreq.client
       IN  /\ <<qclient[q].username, qclient[q].password>> \in Accounts
           /\ qclient' = [qclient EXCEPT ![q].authenticated = TRUE, ![q].jar = qclient[q].username]
           /\ cookie_cache' = CachePut(qclient[q].cookie_key, qclient[q].username,
                                       <<qclient[q].username, qclient[q].password>>)
    /\ qreq' = IF qreq.attempt + 1 < Attempts
               THEN [qreq EXCEPT !.pc = "send", !.attempt = @ + 1, !.login_ok = TRUE]
               ELSE [qreq EXCEPT !.pc = "done", !.attempt = @ + 1, !.login_ok = TRUE,
                                 !.outcome = "AuthenticationError"]
    /\ UNCHANGED <<arg, ret, instance, constructed, gret, managerVars_noqbit>>

(* the forced login is refused: _login raises AuthenticationError, which
   leaves _request *)
RequestLoginRejected ==
    /\ qreq.pc = "login"
    /\ <<qclient[qreq.client].username, qclient[qreq.client].password>> \notin Accounts
    /\ qreq' = [qreq EXCEPT !.pc = "done", !.outcome = "AuthenticationError"]
    /\ UNCHANGED <<cookie_cache, qclient, arg, ret, instance, constructed, gret, managerVars_noqbit>>

(* the post of the login raises ClientError inside the try of _request *)
RequestLoginUnreachable ==
    /\ qreq.pc = "login"
    /\ qreq' = [qreq EXCEPT !.pc = "done", !.outcome = "QbitClientError"]
    /\ UNCHANGED <<cookie_cache, qclient, arg, ret, instance, constructed, gret, managerVars_noqbit>>

(* the caller has the result or the exception *)
RequestReturn ==
    /\ qreq.pc = "done"
    /\ qreq' = NoCallInFlight
    /\ UNCHANGED <<cookie_cache, qclient, arg, ret, instance, constructed, gret, managerVars_noqbit>>

(* ---------------------------------------------------------------------- *)
(* A statement of a pass fails on the database                             *)
(* ---------------------------------------------------------------------- *)
(* the exception leaves the pass and is logged by _monitor, which sleeps again *)
MonitorFailed ==
    /\ monitor_errors < MaxFaults
    /\ monitor_errors' = monitor_errors + 1
    /\ mpc' = "sleep"
    /\ UNCHANGED <<jobs, queue, wish, mamBest, rlist, callVars, settings, reports, present,
                   clockVars, workerVars, mlist, midx, pseen, pcache, pmeets, pdown, lockVars, reprocessVars,
                   historyVars>>

(* the select of the wishlist requests raises *)
RetryQueryFailed ==
    /\ MonitorResumable
    /\ mpc = "sleep" /\ RetryGateOpen
    /\ last_mam_retry' = now
    /\ MonitorFailed
    /\ UNCHANGED <<last_sweep, sweep_running, last_cleanup>>

(* the select of the polled jobs raises *)
PollQueryFailed ==
    /\ mpc = "poll"
    /\ MonitorFailed
    /\ UNCHANGED <<last_mam_retry, last_sweep, sweep_running, last_cleanup>>

(* the select of the orphaned jobs raises; the `finally` of the sweep runs *)
SweepQueryFailed ==
    /\ mpc = "sweep"
    /\ ~(last_sweep # NoTime /\ now - last_sweep < SweepInterval)
    /\ last_sweep' = now /\ sweep_running' = FALSE
    /\ MonitorFailed
    /\ UNCHANGED <<last_mam_retry, last_cleanup>>

(* the select of the seeded jobs raises *)
CleanupQueryFailed ==
    /\ mpc = "cleanup"
    /\ ~(last_cleanup # NoTime /\ now - last_cleanup < SweepInterval)
    /\ last_cleanup' = now
    /\ MonitorFailed
    /\ UNCHANGED <<last_mam_retry, last_sweep, sweep_running>>

(* ---------------------------------------------------------------------- *)
(* _poll_torrents                                                          *)
(* ---------------------------------------------------------------------- *)
downloading_states == {"downloading", "forceddl", "metadl", "allocating"}
uploading_states == {"uploading", "forcedup"}
inactive_downloading_states == {"pauseddl", "queueddl", "stalleddl", "checkingdl"}
inactive_seeding_states == {"pausedup", "queuedup", "stalledup", "checkingup"}

(* a faulty variant of Clamp: no upper limit *)
Clamp_NoCeiling(elapsed) == Max(0, elapsed)

(* elapsed = max(0, min(int(elapsed), MAX_SEED_SECONDS)) *)
Clamp(elapsed) == Max(0, Min(elapsed, MAX_SEED_SECONDS))

(* the status and message (f"qB state: {state} ...") set from the client state; the torrent client is
   the QbitClient, which has no force_start: that call raises and is logged *)
StateMap(state, status, message) ==
    IF state \in downloading_states
    THEN [status |-> "downloading", message |-> "qB state: " \o state, call |-> "none"]
    ELSE IF state \in uploading_states
    THEN [status |-> "seeding", message |-> "qB state: " \o state, call |-> "none"]
    ELSE IF state \in inactive_downloading_states
    THEN [status |-> "downloading",
          message |-> "qB state: " \o state \o " (inactive) resuming",
          call |-> "resume"]
    ELSE IF state \in inactive_seeding_states
    THEN [status |-> "seeding",
          message |-> "qB state: " \o state \o " (force-start failed)",
          call |-> "none"]
    ELSE [status |-> status, message |-> message, call |-> "none"]

(* t_info.get(...) of a key the response does not hold, and a progress value
   float() does not take; progress is counted in hundredths *)
Missing == 0 - 1
NotANumber == 0 - 2
CompleteProgress == 100

(* is_downloaded of a torrent info with the given leftUntilDone, progress and
   lower-cased state *)
is_downloaded(left_until_done, progress, state_lower) ==
    LET by_size ==
            IF left_until_done # Missing THEN left_until_done = 0
            ELSE IF progress # Missing
                 THEN progress # NotANumber /\ progress >= CompleteProgress
                 ELSE FALSE
    IN  IF state_lower \in {"uploading", "forcedup", "pausedup", "stalledup"}
        THEN TRUE ELSE by_size

(* the client of the model reports a finished download as leftUntilDone = 0 *)
IsDownloaded(t) ==
    is_downloaded(IF t.done THEN 0 ELSE 1, Missing, t.state)

DetectCompletion ==
    /\ ~ret.done
    /\ ret' = Returned(is_downloaded(arg.leftUntilDone, arg.progress, arg.state))
    /\ UNCHANGED <<arg, instance, constructed, gret, managerVars>>

(* a faulty variant of RequiredSeed: the seed target of the current settings *)
RequiredSeed_FromSettings(row) == settings.seed_target_hours * 3600

(* required_seed and ratio_limit of the job's stored seed configuration *)
RequiredSeed(row) ==
    IF row.seed_configuration = NoCfg THEN 0
    ELSE row.seed_configuration.required_seed_seconds
RatioLimit(row) ==
    IF row.seed_configuration = NoCfg THEN NoRatio
    ELSE row.seed_configuration.ratio_limit

MeetsSeedTime(row, seed_seconds) ==
    RequiredSeed(row) = 0 \/ seed_seconds >= RequiredSeed(row)
MeetsRatio(row, ratio) ==
    RatioLimit(row) = NoRatio \/ ratio >= RatioLimit(row)

(* a faulty variant of PollUpdated: a failed job is left failed *)
PollUpdated_NoAutoCorrect(o, t) ==
    LET sm == StateMap(t.state, o.cur.status, o.cur.message)
    IN [o EXCEPT !.cur.status = sm.status,
                 !.cur.message = sm.message,
                 !.cur.seed_seconds = Max(o.cur.seed_seconds, Clamp(t.elapsed))]

(* the object of the job after the auto-correction, the seed statistics and
   the state mapping of one loop iteration *)
PollUpdated(o, t) ==
    LET corrected == IF o.cur.status = "failed" THEN "seeding" ELSE o.cur.status
        sm == StateMap(t.state, corrected, o.cur.message)
    IN [o EXCEPT !.cur.status = sm.status,
                 !.cur.message = sm.message,
                 !.cur.seed_seconds = Max(o.cur.seed_seconds, Clamp(t.elapsed))]

FreePollTasks == {t \in PollTasks : fin[t].pc = "idle"
                                      /\ \A i \in 1..Len(spawned) : spawned[i].task # t}

FirstFreePollTask ==
    LET i == CHOOSE i \in 1..Len(PollTaskOrder) :
                 /\ PollTaskOrder[i] \in FreePollTasks
                 /\ \A k \in 1..(i - 1) : PollTaskOrder[k] \notin FreePollTasks
    IN PollTaskOrder[i]

(* the end of one loop iteration: the next job, or the commit after the loop *)
PollAdvance(c, db, jl) ==
    /\ jobLock' = jl
    /\ pmeets' = FALSE /\ pdown' = FALSE
    /\ IF midx < Len(mlist)
       THEN /\ mpc' = "poll_update" /\ midx' = midx + 1
            /\ mlist' = mlist /\ pseen' = pseen
            /\ pcache' = c /\ jobs' = db
       ELSE /\ mpc' = "sweep" /\ midx' = 0
            /\ mlist' = <<>> /\ pseen' = {}
            /\ pcache' = NoSession /\ jobs' = Commit(c, db)

(* the body of `async with self._job_lock` up to its await or its end *)
PollSection(j, c, meets, down, jl) ==
    LET cur == c[j].cur IN
    IF cur.status = "seeding" /\ cur.dest # NoPath /\ meets
    THEN /\ mpc' = "poll_removing"
         /\ pcache' = c /\ jobLock' = jl
         /\ pmeets' = meets /\ pdown' = down
         /\ UNCHANGED <<jobs, spawned, midx, mlist, pseen>>
    ELSE IF down /\ meets /\ cur.status # "processing"
    THEN /\ FreePollTasks # {}
         /\ LET c2 == [c EXCEPT ![j].cur.status = "processing",
                                ![j].cur.message = "Download complete, starting processing"]
                db2 == Commit(c2, jobs)
                c3 == [k \in Jobs |-> IF k = j THEN Fresh(db2[j]) ELSE Expired]
                t == FirstFreePollTask
            IN /\ spawned' = Append(spawned, [task |-> t, job |-> j])
               /\ PollAdvance(c3, db2, Release(jl))
    ELSE /\ PollAdvance(c, jobs, Release(jl))
         /\ UNCHANGED spawned

(* `async with self._job_lock`: enter at once when the lock is free *)
PollEnter(j, c, meets, down) ==
    LET jl1 == Acquire(jobLock, "poll") IN
    IF jl1.holder = "poll"
       THEN PollSection(j, c, meets, down, jl1)
       ELSE /\ mpc' = "poll_wait_lock"
            /\ pmeets' = meets /\ pdown' = down
            /\ pcache' = c /\ jobLock' = jl1
            /\ UNCHANGED <<jobs, spawned, midx, mlist, pseen>>

pollFrame == <<queue, settings, wishVars, last_mam_retry, reports, clockVars, workerVars, last_sweep, sweep_running,
               last_cleanup, ppLock, fin, reprocessVars, reproSince>>

(* the select of the jobs to monitor and the get_torrents request *)
PollQuery ==
    /\ mpc = "poll"
    /\ LET sel == {j \in Jobs : jobs[j].status \in {"downloading", "seeding", "failed"}
                                /\ jobs[j].hash} IN
       IF sel = {}
       THEN /\ mpc' = "sweep"
            /\ UNCHANGED <<mlist, midx, pcache>>
       ELSE /\ mpc' = "poll_get"
            /\ mlist' = SeqOf(sel, 1) /\ midx' = 1
            /\ pcache' = [j \in Jobs |-> IF j \in sel THEN Fresh(jobs[j]) ELSE Expired]
    /\ UNCHANGED <<jobs, present, pseen, pmeets, pdown, jobLock, spawned,
                   removedOK, removeFailed, pollFrame>>

(* get_torrents answered: the torrents the client holds *)
PollGot ==
    /\ MonitorResumable
    /\ mpc = "poll_get"
    /\ pseen' = {j \in Jobs : j \in present}
    /\ mpc' = "poll_update"
    /\ UNCHANGED <<jobs, present, mlist, midx, pcache, pmeets, pdown, jobLock, spawned,
                   removedOK, removeFailed, pollFrame>>

(* get_torrents raised: the pass returns *)
PollGetFailed ==
    /\ MonitorResumable
    /\ mpc = "poll_get"
    /\ mpc' = "sweep"
    /\ mlist' = <<>> /\ midx' = 0 /\ pcache' = NoSession
    /\ UNCHANGED <<jobs, present, pseen, pmeets, pdown, jobLock, spawned,
                   removedOK, removeFailed, pollFrame>>

(* a faulty variant of TorrentMissing: the answer is taken to hold every hash *)
TorrentMissing_Never(j) == FALSE

(* `if not t_info`: the answer of get_torrents has no entry for the job's hash *)
TorrentMissing(j) == j \notin pseen

(* one loop iteration up to its first await *)
PollUpdate ==
    /\ mpc = "poll_update"
    /\ LET j == mlist[midx]
           o == Load(pcache, jobs, j) IN
       IF TorrentMissing(j)
       THEN /\ PollAdvance([pcache EXCEPT ![j] = o], jobs, jobLock)
            /\ UNCHANGED spawned
       ELSE \E t \in reports :
            LET o1 == PollUpdated(o, t)
                c1 == [pcache EXCEPT ![j] = o1]
                meets == MeetsSeedTime(o1.cur, o1.cur.seed_seconds)
                            /\ MeetsRatio(o1.cur, t.ratio)
                down == IsDownloaded(t)
            IN IF StateMap(t.state, "", "").call = "resume"
               THEN /\ mpc' = "poll_resume"
                    /\ pcache' = c1 /\ pmeets' = meets /\ pdown' = down
                    /\ UNCHANGED <<jobs, jobLock, spawned, midx, mlist, pseen>>
               ELSE PollEnter(j, c1, meets, down)
    /\ UNCHANGED <<present, removedOK, removeFailed, pollFrame>>

(* torrent_client.resume returned *)
PollResumed ==
    /\ MonitorResumable
    /\ mpc = "poll_resume"
    /\ PollEnter(mlist[midx], pcache, pmeets, pdown)
    /\ UNCHANGED <<present, removedOK, removeFailed, pollFrame>>

(* torrent_client.resume raised *)
PollResumeFailed ==
    /\ MonitorResumable
    /\ mpc = "poll_resume"
    /\ PollEnter(mlist[midx],
                 [pcache EXCEPT ![mlist[midx]].cur.message = "qB state (resume failed)"],
                 pmeets, pdown)
    /\ UNCHANGED <<present, removedOK, removeFailed, pollFrame>>

(* the poll was woken as the holder of the job lock *)
PollLocked ==
    /\ MonitorResumable
    /\ mpc = "poll_wait_lock" /\ jobLock.holder = "poll"
    /\ PollSection(mlist[midx], pcache, pmeets, pdown, jobLock)
    /\ UNCHANGED <<present, removedOK, removeFailed, pollFrame>>

(* remove_torrent returned: the job is marked completed *)
PollRemoved ==
    /\ MonitorResumable
    /\ mpc = "poll_removing"
    /\ LET j == mlist[midx]
           c2 == [pcache EXCEPT
                    ![j].cur.status = "completed",
                    ![j].cur.message = "Seeded - completed",
                    ![j].cur.completed_at = IF @ = NoTime THEN now ELSE @]
       IN PollAdvance(c2, jobs, Release(jobLock))
    /\ present' = present \ {mlist[midx]}
    /\ removedOK' = removedOK \cup {mlist[midx]}
    /\ UNCHANGED removeFailed
    /\ UNCHANGED <<spawned, pollFrame>>

(* a faulty variant of PollRemoveFailed: the job is marked completed although
   remove_torrent raised *)
PollRemoveFailed_MarksCompleted ==
    /\ MonitorResumable
    /\ mpc = "poll_removing"
    /\ LET j == mlist[midx]
           c2 == [pcache EXCEPT
                    ![j].cur.status = "completed",
                    ![j].cur.message = "Seeded - completed",
                    ![j].cur.completed_at = IF @ = NoTime THEN now ELSE @]
       IN PollAdvance(c2, jobs, Release(jobLock))
    /\ removeFailed' = removeFailed \cup {mlist[midx]}
    /\ UNCHANGED <<present, spawned, removedOK, pollFrame>>

(* a faulty variant of PollRemoveFailed: the job is given up as failed when
   remove_torrent raised *)
PollRemoveFailed_GivesUp ==
    /\ MonitorResumable
    /\ mpc = "poll_removing"
    /\ LET j == mlist[midx]
           c2 == [pcache EXCEPT ![j].cur.status = "failed"]
       IN PollAdvance(c2, jobs, Release(jobLock))
    /\ removeFailed' = removeFailed \cup {mlist[midx]}
    /\ UNCHANGED <<present, spawned, removedOK, pollFrame>>

(* remove_torrent raised: nothing is changed, the next cycle retries *)
PollRemoveFailed ==
    /\ MonitorResumable
    /\ mpc = "poll_removing"
    /\ PollAdvance(pcache, jobs, Release(jobLock))
    /\ removeFailed' = removeFailed \cup {mlist[midx]}
    /\ UNCHANGED <<present, spawned, removedOK, pollFrame>>

(* ---------------------------------------------------------------------- *)
(* _maybe_finalize_seeding                                                 *)
(* ---------------------------------------------------------------------- *)
sweepFrame == <<queue, settings, wishVars, last_mam_retry, reports, present, clockVars, workerVars, pseen, pcache, pmeets,
                pdown, last_cleanup, spawned, reprocessVars, historyVars>>

(* the next job of the sweep, or its `finally` *)
SweepAdvance ==
    IF midx < Len(mlist)
    THEN /\ mpc' = "sweep_get" /\ midx' = midx + 1
         /\ UNCHANGED <<mlist, last_sweep, sweep_running>>
    ELSE /\ mpc' = "cleanup" /\ midx' = 0 /\ mlist' = <<>>
         /\ last_sweep' = now /\ sweep_running' = FALSE

(* a faulty variant of OrphanSelected: jobs in processing are not selected *)
OrphanSelected_SeedingOnly(row) ==
    row.status = "seeding" /\ row.dest = NoPath

(* the where clause of the sweep: seeding or processing, no destination yet *)
OrphanSelected(row) ==
    row.status \in {"seeding", "processing"} /\ row.dest = NoPath

SweepStart ==
    /\ mpc = "sweep"
    /\ IF (last_sweep # NoTime /\ now - last_sweep < SweepInterval) \/ sweep_running
       THEN /\ mpc' = "cleanup"
            /\ UNCHANGED <<mlist, midx, last_sweep, sweep_running>>
       ELSE LET sel == {j \in Jobs : OrphanSelected(jobs[j]) /\ jobs[j].hash} IN
            IF sel = {}
            THEN /\ mpc' = "cleanup" /\ last_sweep' = now
                 /\ UNCHANGED <<mlist, midx, sweep_running>>
            ELSE /\ mpc' = "sweep_get" /\ mlist' = SeqOf(sel, 1) /\ midx' = 1
                 /\ sweep_running' = TRUE
                 /\ UNCHANGED last_sweep
    /\ UNCHANGED <<jobs, ppLock, jobLock, fin, sweepFrame>>

(* get_torrents([hash]) answered *)
SweepGot ==
    /\ MonitorResumable
    /\ mpc = "sweep_get"
    /\ IF mlist[midx] \in present
       THEN LET r == EnterFinalize("sweep", mlist[midx], ppLock, jobLock, fin, jobs) IN
            /\ ppLock' = r.pp /\ jobLock' = r.jl /\ fin' = r.fin
            /\ mpc' = "sweep_fin"
            /\ UNCHANGED <<mlist, midx, last_sweep, sweep_running>>
       ELSE /\ SweepAdvance
            /\ UNCHANGED <<ppLock, jobLock, fin>>
    /\ UNCHANGED <<jobs, sweepFrame>>

(* get_torrents raised: the job is skipped *)
SweepGetFailed ==
    /\ MonitorResumable
    /\ mpc = "sweep_get"
    /\ SweepAdvance
    /\ UNCHANGED <<jobs, ppLock, jobLock, fin, sweepFrame>>

(* the awaited _finalize_job returned *)
SweepNext ==
    /\ mpc = "sweep_next"
    /\ SweepAdvance
    /\ UNCHANGED <<jobs, ppLock, jobLock, fin, sweepFrame>>

(* ---------------------------------------------------------------------- *)
(* _maybe_cleanup_seeded                                                   *)
(* ---------------------------------------------------------------------- *)
cleanupFrame == <<queue, settings, wishVars, last_mam_retry, reports, clockVars, workerVars, pseen, pmeets, pdown,
                  last_sweep, sweep_running, lockVars, reprocessVars, reproSince>>

CleanupEligible(row) ==
    /\ row.completed_at # NoTime
    /\ RequiredSeed(row) > 0
    /\ now - row.completed_at >= RequiredSeed(row)
    /\ row.hash

(* the loop from index i up to the next remove_torrent call or the end *)
CleanupScan(c, db, list, i) ==
    LET hits == {k \in i..Len(list) : CleanupEligible(Load(c, db, list[k]).cur)} IN
    IF hits = {}
    THEN /\ mpc' = "sleep" /\ mlist' = <<>> /\ midx' = 0 /\ pcache' = NoSession
    ELSE LET k == CHOOSE x \in hits : \A y \in hits : x <= y
             o == Load(c, db, list[k]) IN
         /\ mpc' = "cleanup_removing" /\ mlist' = list /\ midx' = k
         /\ pcache' = [c EXCEPT ![list[k]] = o]

CleanupStart ==
    /\ mpc = "cleanup"
    /\ IF last_cleanup # NoTime /\ now - last_cleanup < SweepInterval
       THEN /\ mpc' = "sleep"
            /\ UNCHANGED <<mlist, midx, pcache, last_cleanup>>
       ELSE LET sel == {j \in Jobs : /\ jobs[j].status = "seeding"
                                     /\ jobs[j].dest # NoPath
                                     /\ jobs[j].completed_at # NoTime} IN
            /\ last_cleanup' = now
            /\ CleanupScan([j \in Jobs |-> IF j \in sel THEN Fresh(jobs[j]) ELSE Expired],
                           jobs, SeqOf(sel, 1), 1)
    /\ UNCHANGED <<jobs, present, removedOK, removeFailed, cleanupFrame>>

(* remove_torrent(hash, delete_data=False) returned *)
CleanupRemoved ==
    /\ MonitorResumable
    /\ mpc = "cleanup_removing"
    /\ LET j == mlist[midx]
           c2 == [pcache EXCEPT ![j].cur.message = "Seed target met; torrent removed"]
           db2 == Commit(c2, jobs) IN
        /\ jobs' = db2
        /\ CleanupScan(NoSession, db2, mlist, midx + 1)
    /\ present' = present \ {mlist[midx]}
    /\ removedOK' = removedOK \cup {mlist[midx]}
    /\ UNCHANGED removeFailed
    /\ UNCHANGED <<last_cleanup, cleanupFrame>>

(* remove_torrent raised: logged *)
CleanupRemoveFailed ==
    /\ MonitorResumable
    /\ mpc = "cleanup_removing"
    /\ CleanupScan(pcache, jobs, mlist, midx + 1)
    /\ UNCHANGED <<jobs, present, removedOK, removeFailed, last_cleanup, cleanupFrame>>

(* ---------------------------------------------------------------------- *)
(* reprocess_job                                                           *)
(* ---------------------------------------------------------------------- *)
reprocessFrame == <<settings, wishVars, last_mam_retry, reports, present, clockVars, workerVars, monitorVars, spawned,
                    removedOK, removeFailed>>

(* a faulty variant of Requeued: the status is left as it was *)
Requeued_KeepsStatus(row) ==
    [row EXCEPT !.completed_at = NoTime, !.message = "Retrying download"]

(* a faulty variant of Requeued: the job goes to post-processing *)
Requeued_AsProcessing(row) ==
    [row EXCEPT !.completed_at = NoTime, !.status = "processing",
                !.message = "Retrying post-processing"]

(* the row of a job without a hash as reprocess_job commits it *)
Requeued(row) ==
    [row EXCEPT !.completed_at = NoTime, !.status = "pending",
                !.message = "Retrying download"]

(* the call up to its return (False for an unknown job, True after a requeue)
   or up to the await of get_torrents *)
ReprocessStart(j) ==
    /\ MonitorSuspended
    /\ rpc = "idle" /\ rcount < MaxReprocess
    /\ rcount' = rcount + 1
    /\ reproSince' = [reproSince EXCEPT ![j] = (jobs[j].status # "absent")]
    /\ IF jobs[j].status = "absent"
       THEN /\ rret' = "false"
            /\ UNCHANGED <<jobs, queue, rpc, rjob, rloaded>>
       ELSE IF ~jobs[j].hash
       THEN /\ jobs' = [jobs EXCEPT ![j] = Requeued(@)]
            /\ queue' = Append(queue, j)
            /\ rret' = "true"
            /\ UNCHANGED <<rpc, rjob, rloaded>>
       ELSE /\ rpc' = "get" /\ rjob' = j
            /\ rloaded' = [status |-> jobs[j].status, message |-> jobs[j].message,
                            completed_at |-> jobs[j].completed_at]
            /\ rret' = "none"
            /\ UNCHANGED <<jobs, queue>>
    /\ UNCHANGED <<ppLock, jobLock, fin, reprocessFrame>>

(* the row as committed by the reprocess session: completed_at = None was
   assigned before the await, status and message after it *)
ReprocessCommit(row, status, message) ==
    [row EXCEPT !.completed_at = IF rloaded.completed_at # NoTime THEN NoTime ELSE @,
                !.status = IF rloaded.status # status THEN status ELSE @,
                !.message = IF rloaded.message # message THEN message ELSE @]

(* get_torrents answered *)
ReprocessGot ==
    /\ MonitorSuspended
    /\ rpc = "get"
    /\ IF rjob \in present
       THEN LET db2 == [jobs EXCEPT ![rjob] =
                          ReprocessCommit(@, "processing", "Retrying post-processing")]
                r == EnterFinalize("reprocess", rjob, ppLock, jobLock, fin, db2) IN
            /\ jobs' = db2
            /\ ppLock' = r.pp /\ jobLock' = r.jl /\ fin' = r.fin
            /\ rpc' = "fin" /\ rjob' = NoJob /\ rloaded' = NoRow
            /\ UNCHANGED <<queue, rret>>
       ELSE /\ jobs' = [jobs EXCEPT ![rjob] =
                          ReprocessCommit(@, "pending", "Retrying download (torrent missing)")]
            /\ queue' = Append(queue, rjob)
            /\ rpc' = "idle" /\ rjob' = NoJob /\ rloaded' = NoRow
            /\ rret' = "true"
            /\ UNCHANGED <<ppLock, jobLock, fin>>
    /\ UNCHANGED <<rcount, reproSince, reprocessFrame>>

(* get_torrents raised: the call fails, nothing was committed *)
ReprocessGetFailed ==
    /\ MonitorSuspended
    /\ rpc = "get"
    /\ rpc' = "idle" /\ rjob' = NoJob /\ rloaded' = NoRow
    /\ rret' = "raised"
    /\ UNCHANGED <<jobs, queue, ppLock, jobLock, fin, rcount, reproSince, reprocessFrame>>

(* ---------------------------------------------------------------------- *)
(* The orchestrator                                                        *)
(* ---------------------------------------------------------------------- *)
WorkerNext ==
    \/ WorkerDequeue \/ WorkerAdded \/ WorkerAddFailed
    \/ WorkerLimitsDone \/ WorkerLimitsFailed

PollNext ==
    \/ PollQuery \/ PollGot \/ PollGetFailed \/ PollUpdate
    \/ PollLocked \/ PollRemoved \/ PollRemoveFailed

PollResumeNext == PollResumed \/ PollResumeFailed

SweepNextStep == SweepStart \/ SweepGot \/ SweepGetFailed \/ SweepNext

CleanupNext == CleanupRemoved \/ CleanupRemoveFailed

FinalizeNext ==
    \/ TaskStart
    \/ \E t \in TaskIds : FinGotPP(t)
    \/ \E t \in TaskIds : FinSucceeded(t)
    \/ \E t \in TaskIds : FinFailed(t)

(* a finalization that had to wait for the job lock *)
FinalizeWaitNext == \E t \in TaskIds : FinGotJob(t)

ReprocessNext ==
    \/ \E j \in Jobs : ReprocessStart(j)
    \/ ReprocessGot \/ ReprocessGetFailed

(* the client's answers in the runs below *)
OneSetting == {[seed_target_hours |-> DefaultSeedHours, ratio_limit |-> NoRatio]}
ReportsSeeded == {t \in TInfos : t.elapsed = DefaultSeedHours * 3600 /\ t.ratio = 2}
ReportsActive == {t \in ReportsSeeded : t.state \in {"uploading", "downloading"}}
ReportsTimed == {t \in TInfos : t.elapsed \in {0, DefaultSeedHours * 3600} /\ t.ratio = 2}

(* one job, every task of the orchestrator and manual reprocess calls; the
   wall clock stands still and the client reports the seed time as reached *)
Init == InitWith({"j1"}, OneSetting, ReportsActive)
Next ==
    \/ WorkerNext \/ MonitorSleep \/ PollNext \/ SweepNextStep \/ CleanupStart
    \/ FinalizeNext \/ FinalizeWaitNext \/ ReprocessNext
Spec == Init /\ [][Next]_vars

(* one job, the orchestrator on its own while the wall clock advances; the
   client reports the seed time as reached or not *)
InitClock == InitWith({"j1"}, OneSetting, ReportsTimed)
NextClock ==
    \/ Tick \/ WorkerNext \/ MonitorSleep \/ PollNext \/ PollResumeNext
    \/ SweepNextStep \/ CleanupStart \/ CleanupNext \/ FinalizeNext
SpecClock == InitClock /\ [][NextClock]_vars

(* one job, every report of the client under every setting *)
InitPoll == InitWith({"j1"}, SettingsSet, TInfos)
NextPoll ==
    \/ WorkerNext \/ MonitorSleep \/ PollNext \/ PollResumeNext
    \/ SweepNextStep \/ CleanupStart \/ FinalizeNext
SpecPoll == InitPoll /\ [][NextPoll]_vars

(* two jobs *)
InitTwo == InitWith(Jobs, OneSetting, ReportsActive)
NextTwo ==
    \/ WorkerNext \/ MonitorSleep \/ PollNext \/ SweepNextStep \/ CleanupStart
    \/ FinalizeNext \/ FinalizeWaitNext
SpecTwo == InitTwo /\ [][NextTwo]_vars

(* one job under a client that reports the torrent as seeded, no failing call,
   no manual reprocess; every task that can run eventually runs *)
ReportsUploading == {t \in ReportsSeeded : t.state = "uploading"}
InitLive == InitWith({"j1"}, OneSetting, ReportsUploading)
NextLive ==
    \/ Tick
    \/ WorkerDequeue \/ WorkerAdded \/ WorkerLimitsDone
    \/ MonitorSleep
    \/ PollQuery \/ PollGot \/ PollUpdate \/ PollRemoved
    \/ SweepStart \/ SweepGot \/ SweepNext
    \/ CleanupStart \/ CleanupRemoved
    \/ TaskStart
    \/ \E t \in TaskIds : FinGotPP(t)
    \/ \E t \in TaskIds : FinSucceeded(t)
    \/ \E t \in TaskIds : FinFailed(t)
(* the steps of the monitor stay enabled until they are taken; those of the
   other tasks are enabled whenever the monitor is suspended, again and again *)
Fairness ==
    /\ SF_vars(WorkerDequeue) /\ SF_vars(WorkerAdded) /\ SF_vars(WorkerLimitsDone)
    /\ WF_vars(MonitorSleep)
    /\ WF_vars(PollQuery) /\ WF_vars(PollGot) /\ WF_vars(PollUpdate)
    /\ WF_vars(PollRemoved)
    /\ WF_vars(SweepStart) /\ WF_vars(SweepGot) /\ WF_vars(SweepNext)
    /\ WF_vars(CleanupStart) /\ WF_vars(CleanupRemoved)
    /\ SF_vars(TaskStart)
    /\ \A t \in TaskIds : SF_vars(FinGotPP(t)) /\ SF_vars(FinSucceeded(t))
LiveSpec == InitLive /\ [][NextLive]_vars /\ Fairness

(* the same orchestrator when the process may be stopped and started again at
   any moment and the user of the client may take the torrent out of it *)
NextCrash ==
    \/ NextLive
    \/ Restart
    \/ \E j \in Jobs : ClientDropsTorrent(j)
CrashSpec == InitLive /\ [][NextCrash]_vars /\ Fairness

(* one job while the settings are edited; the client reports a seed time of
   nothing or of the default target, and a ratio below every limit *)
ReportsLowRatio == {t \in TInfos : t.ratio = 0 /\ t.elapsed \in {0, DefaultSeedHours * 3600}}
InitSettings == InitWith({"j1"}, SettingsSet, ReportsLowRatio)
NextSettings == NextPoll \/ SettingsChange
SpecSettings == InitSettings /\ [][NextSettings]_vars

(* the orchestrator of LiveSpec under a client whose remove_torrent may fail *)
NextRetire == NextLive \/ PollRemoveFailed
RetireSpec == InitLive /\ [][NextRetire]_vars /\ Fairness

(* one job and a wishlist request marked unavailable: the retry sweep runs in
   the monitor cycles while the tracker's answer changes *)
InitRetry ==
    /\ InitJobs({"j1"}, OneSetting, ReportsUploading)
    /\ arg = NoCall /\ ret = NoCall
    /\ wish = [r \in Requests |-> IF r = "r1" THEN FlaggedWish ELSE NoWish]
    /\ mamBest \in {[r \in Requests |-> IF r = "r1" THEN b ELSE NoTorrent] : b \in MamAnswers}
NextRetry ==
    \/ NextLive \/ RetrySearched \/ RetrySearchFailed
    \/ \E r \in Requests : MamChanges(r)
RetrySpec == InitRetry /\ [][NextRetry]_vars

(* no job yet and every wishlist request marked unavailable, more requests
   than one sweep takes; the tracker has no result or fails, day after day *)
InitWishlist ==
    /\ InitJobs({}, OneSetting, ReportsUploading)
    /\ arg = NoCall /\ ret = NoCall
    /\ wish = [r \in Requests |-> FlaggedWish]
    /\ mamBest \in [Requests -> {Unreachable, NoTorrent}]
NextWishlist ==
    \/ TickDay \/ MonitorSleep \/ RetrySearched \/ RetrySearchFailed
    \/ PollQuery \/ SweepStart \/ CleanupStart
SpecWishlist == InitWishlist /\ [][NextWishlist]_vars

(* the tasks of the process ask for the orchestrator, each once, through
   either accessor *)
NextInstance == \E c \in Callers : GetInstance(c) \/ GetInstanceAsync(c)
SpecInstance == Init /\ [][NextInstance]_vars

(* a finalization of a torrent whose client reports any absolute directory,
   with the prefixes /r (remote) and /l (local) configured *)
ReportedDirs ==
    {d \in UNION {[1..n -> DirChars] : n \in 1..MaxDirLen} : d[1] = "/"}
InitPath ==
    /\ InitJobs({"j1"}, OneSetting, ReportsUploading)
    /\ wish = [r \in Requests |-> NoWish]
    /\ mamBest = [r \in Requests |-> NoTorrent]
    /\ arg \in [dir : ReportedDirs, remote : {<<"/", "r">>}, local : {<<"/", "l">>}]
    /\ ret = NoCall
SpecPath == InitPath /\ [][FinalizeMapsPath]_vars

(* a merge of one or more audio files with any short name *)
FileNames == UNION {[1..n -> NameChars] : n \in 1..MaxNameLen}
InitMerge ==
    /\ InitJobs({"j1"}, OneSetting, ReportsUploading)
    /\ wish = [r \in Requests |-> NoWish]
    /\ mamBest = [r \in Requests |-> NoTorrent]
    /\ arg \in [files : UNION {[1..n -> FileNames] : n \in 1..MaxFiles}]
    /\ ret = NoCall
SpecMerge == InitMerge /\ [][MergeWithFfmpeg]_vars

(* the tags of a request with up to MaxPeople authors and narrators *)
PeopleLists == UNION {[1..n -> {<<p>> : p \in People}] : n \in 0..MaxPeople}
InitTags ==
    /\ InitJobs({"j1"}, OneSetting, ReportsUploading)
    /\ wish = [r \in Requests |-> NoWish]
    /\ mamBest = [r \in Requests |-> NoTorrent]
    /\ arg \in [authors : PeopleLists, narrators : PeopleLists]
    /\ ret = NoCall
SpecTags == InitTags /\ [][ExtractMetadata]_vars

(* clients are constructed with any URL and credentials, log in, and are
   answered 403 *)
NextQbit ==
    \E q \in QbitIds :
        \/ \E url \in Urls, u \in Usernames, p \in Passwords : QbitInit(q, url, u, p)
        \/ QbitLogin(q)
        \/ QbitForbidden(q)
SpecQbit == Init /\ [][NextQbit]_vars

(* clients are constructed and log in, and _request is called on them with
   any answers of the WebUI *)
NextRequest ==
    \/ \E q \in QbitIds :
          \/ \E url \in Urls, u \in Usernames, p \in Passwords : QbitInit(q, url, u, p)
          \/ QbitLogin(q)
          \/ RequestStart(q)
    \/ \E resp \in Responses : RequestAnswered(resp)
    \/ RequestUnreachable
    \/ RequestLoginOk
    \/ RequestLoginRejected
    \/ RequestLoginUnreachable
    \/ RequestReturn
SpecRequest == Init /\ [][NextRequest]_vars

(* two submitted jobs and the worker, whose statements on the database may
   raise; the monitor polls meanwhile *)
InitWorker == InitWith(Jobs, OneSetting, ReportsUploading)
NextWorker ==
    \/ WorkerDequeue \/ WorkerNotConfigured \/ WorkerAdded \/ WorkerAddFailed
    \/ WorkerLimitsDone \/ WorkerLimitsFailed
    \/ WorkerRaised \/ WorkerHandled \/ WorkerHandlerRaised
    \/ MonitorSleep \/ PollQuery \/ PollGot \/ PollUpdate
    \/ SweepStart \/ CleanupStart
WorkerFairness ==
    /\ SF_vars(WorkerDequeue \/ WorkerNotConfigured \/ WorkerRaised)
    /\ SF_vars(WorkerAdded \/ WorkerAddFailed)
    /\ SF_vars(WorkerLimitsDone \/ WorkerLimitsFailed)
    /\ SF_vars(WorkerHandled \/ WorkerHandlerRaised)
    /\ WF_vars(MonitorSleep) /\ WF_vars(PollQuery) /\ WF_vars(PollGot) /\ WF_vars(PollUpdate)
    /\ WF_vars(SweepStart) /\ WF_vars(CleanupStart)
WorkerSpec == InitWorker /\ [][NextWorker]_vars /\ WorkerFairness

(* one seeded job, no failing call: the poll and the tasks it spawns, the
   orphan sweep and a manual reprocess call contend for the two locks, and
   every post-processing run ends *)
InitLocks == InitWith({"j1"}, OneSetting, ReportsUploading)
NextLocks ==
    \/ WorkerDequeue \/ WorkerAdded \/ WorkerLimitsDone
    \/ MonitorSleep
    \/ PollQuery \/ PollGot \/ PollUpdate \/ PollLocked \/ PollRemoved
    \/ SweepStart \/ SweepGot \/ SweepNext
    \/ CleanupStart
    \/ TaskStart
    \/ \E t \in TaskIds : FinGotPP(t)
    \/ \E t \in TaskIds : FinGotJob(t)
    \/ \E t \in TaskIds : FinSucceeded(t)
    \/ \E t \in TaskIds : FinFailed(t)
    \/ \E j \in Jobs : ReprocessStart(j)
    \/ ReprocessGot
LocksFairness ==
    /\ SF_vars(WorkerDequeue \/ WorkerAdded \/ WorkerLimitsDone)
    /\ WF_vars(MonitorSleep \/ PollQuery \/ PollGot \/ PollUpdate \/ PollLocked \/ PollRemoved
                 \/ SweepStart \/ SweepGot \/ SweepNext \/ CleanupStart)
    /\ SF_vars(TaskStart) /\ SF_vars(ReprocessGot)
    /\ SF_vars(\E t \in TaskIds : FinGotPP(t))
    /\ SF_vars(\E t \in TaskIds : FinGotJob(t))
    /\ SF_vars(\E t \in TaskIds : FinSucceeded(t) \/ FinFailed(t))
LocksSpec == InitLocks /\ [][NextLocks]_vars /\ LocksFairness

(* one job whose torrent the client reports as incomplete at every query *)
ReportsIncomplete == {t \in TInfos : ~IsDownloaded(t)}
InitIncomplete == InitWith({"j1"}, OneSetting, ReportsIncomplete)
NextIncomplete ==
    \/ WorkerNext \/ MonitorSleep
    \/ PollQuery \/ PollGot \/ PollGetFailed \/ PollUpdate \/ PollRemoved \/ PollRemoveFailed
    \/ PollResumeNext \/ SweepNextStep \/ CleanupStart
    \/ \E t \in TaskIds : FinSucceeded(t)
    \/ \E t \in TaskIds : FinFailed(t)
SpecIncomplete == InitIncomplete /\ [][NextIncomplete]_vars

(* completion detection on a torrent info with any combination of
   leftUntilDone, progress and state, each of them possibly not reported *)
ReportedLeft == {Missing, 0, 5}
ReportedProgress == {Missing, NotANumber, 0, 50, CompleteProgress, 120}
ReportedStates == ClientStates \cup {"forcedup", "stalledup", ""}
InitCompletion ==
    /\ InitJobs({"j1"}, OneSetting, ReportsUploading)
    /\ wish = [r \in Requests |-> NoWish]
    /\ mamBest = [r \in Requests |-> NoTorrent]
    /\ arg \in [leftUntilDone : ReportedLeft, progress : ReportedProgress,
                 state : ReportedStates]
    /\ ret = NoCall
SpecCompletion == InitCompletion /\ [][DetectCompletion]_vars

(* one job and every task of the orchestrator, with an installation whose
   MAM settings may be unusable when the worker takes the job *)
NextFail == Next \/ WorkerNotConfigured
SpecFail == Init /\ [][NextFail]_vars

(* two jobs whose torrents the user of the client may take out of it; no call
   fails and the wall clock stands still *)
InitSkip == InitWith(Jobs, OneSetting, ReportsUploading)
NextSkip ==
    \/ WorkerDequeue \/ WorkerAdded \/ WorkerLimitsDone
    \/ MonitorSleep
    \/ PollQuery \/ PollGot \/ PollUpdate \/ PollLocked \/ PollRemoved
    \/ SweepStart \/ SweepGot \/ SweepNext
    \/ CleanupStart
    \/ TaskStart
    \/ \E t \in TaskIds : FinGotPP(t)
    \/ \E t \in TaskIds : FinSucceeded(t)
    \/ \E j \in Jobs : ClientDropsTorrent(j)
SkipSpec == InitSkip /\ [][NextSkip]_vars /\ Fairness /\ WF_vars(PollLocked)

(* one job with a seed target of one hour and a wishlist request marked
   unavailable, while the wall clock advances by quarters of an hour, during
   the runs of the sweeps as well as between them *)
HourSetting == {[seed_target_hours |-> 1, ratio_limit |-> NoRatio]}
InitSweeps ==
    /\ InitJobs({"j1"}, HourSetting, ReportsUploading)
    /\ arg = NoCall /\ ret = NoCall
    /\ wish = [r \in Requests |-> IF r = "r1" THEN FlaggedWish ELSE NoWish]
    /\ mamBest \in {[r \in Requests |-> IF r = "r1" THEN b ELSE NoTorrent] :
                        b \in {Unreachable, NoTorrent}}
NextSweeps ==
    \/ TickQuarter
    \/ WorkerDequeue \/ WorkerAdded \/ WorkerLimitsDone
    \/ MonitorSleep \/ RetrySearched \/ RetrySearchFailed
    \/ PollQuery \/ PollGot \/ PollUpdate \/ PollRemoved
    \/ SweepStart \/ SweepGot \/ SweepNext
    \/ CleanupStart \/ CleanupRemoved
    \/ TaskStart
    \/ \E t \in TaskIds : FinGotPP(t)
    \/ \E t \in TaskIds : FinSucceeded(t)
    \/ \E t \in TaskIds : FinFailed(t)
SpecSweeps == InitSweeps /\ [][NextSweeps]_vars

(* one job whose post-processing fails at every attempt; the client reports
   the torrent as uploading or in error with no seed time yet, and the wall
   clock advances by quarters of an hour *)
ReportsFresh == {t \in ReportsTimed : t.state \in {"uploading", "error"} /\ t.elapsed = 0}
InitBroken == InitWith({"j1"}, OneSetting, ReportsFresh)
NextBroken ==
    \/ TickQuarter
    \/ WorkerDequeue \/ WorkerAdded \/ WorkerLimitsDone
    \/ MonitorSleep
    \/ PollQuery \/ PollGot \/ PollUpdate
    \/ SweepStart \/ SweepGot \/ SweepNext
    \/ CleanupStart
    \/ \E t \in TaskIds : FinFailed(t)
BrokenFairness ==
    /\ SF_vars(TickQuarter)
    /\ SF_vars(WorkerDequeue) /\ SF_vars(WorkerAdded) /\ SF_vars(WorkerLimitsDone)
    /\ WF_vars(MonitorSleep)
    /\ WF_vars(PollQuery) /\ WF_vars(PollGot) /\ WF_vars(PollUpdate)
    /\ WF_vars(SweepStart) /\ WF_vars(SweepGot) /\ WF_vars(SweepNext)
    /\ WF_vars(CleanupStart)
    /\ \A t \in TaskIds : SF_vars(FinFailed(t))
BrokenSpec == InitBroken /\ [][NextBroken]_vars /\ BrokenFairness

(* one job of request r1, the worker, the poll and the sweep, a manual
   reprocess call, and the download route called again for the same request;
   the client reports no seed time *)
InitEnqueue == InitWith({"j1"}, OneSetting, ReportsFresh)
NextEnqueue ==
    \/ WorkerNext \/ MonitorSleep
    \/ PollQuery \/ PollGot \/ PollUpdate
    \/ SweepStart \/ SweepGot \/ SweepNext \/ CleanupStart
    \/ \E t \in TaskIds : FinSucceeded(t)
    \/ \E j \in Jobs : ReprocessStart(j)
    \/ ReprocessGot
    \/ \E torrent_id \in TorrentIds : DownloadMam("r1", torrent_id)
SpecEnqueue == InitEnqueue /\ [][NextEnqueue]_vars

(* the same while a statement of a pass may fail on the database *)
NextFault ==
    \/ NextRetry
    \/ RetryQueryFailed \/ PollQueryFailed \/ SweepQueryFailed \/ CleanupQueryFailed
FaultSpec == InitRetry /\ [][NextFault]_vars

(* ---------------------------------------------------------------------- *)
(* Properties                                                              *)
(* ---------------------------------------------------------------------- *)
(* C1: a job has status completed, in the table or in the session of the poll
   cycle, only if a remove_torrent call for it has returned without error *)
C1_CompletedOnlyAfterRemoval ==
    \A j \in Jobs :
        (jobs[j].status = "completed"
            \/ (pcache[j].loaded /\ pcache[j].cur.status = "completed"))
        => j \in removedOK

(* a job was retired by the poll cycle after a manual reprocess *)
C1_Witness ==
    \E j \in Jobs : jobs[j].status = "completed" /\ j \in removedOK /\ rcount > 0

(* C2: a finalization never runs its post-processing step for a job whose
   destination_path is set, unless a manual reprocess was called since it was set *)
C2_FinalizedOnce ==
    \A t \in TaskIds :
        fin[t].pc = "process"
        => (jobs[fin[t].job].dest = NoPath \/ reproSince[fin[t].job])

(* C3: a finalization whose post-processor raised or timed out leaves the job
   seeding with the failure text as message and destination_path as it was *)
C3_FailureKeepsSeeding ==
    [][\A t \in TaskIds :
          FinFailed(t) =>
              /\ jobs'[fin[t].job].status = "seeding"
              /\ jobs'[fin[t].job].message \in FinFailMessages
              /\ jobs'[fin[t].job].dest = jobs[fin[t].job].dest]_vars

(* the loop iteration of the poll cycle for job j runs up to its first await *)
PollIterates(j) ==
    /\ mpc = "poll_update" /\ mlist[midx] = j
    /\ <<mpc, midx>>' # <<mpc, midx>>

(* C4 as stated: the iteration for a failed job whose torrent the client reports
   leaves it seeding, and leaves a failed job whose torrent is not reported failed *)
C4_FailedBackToSeeding ==
    [][\A j \in Jobs :
          (PollIterates(j) /\ Load(pcache, jobs, j).cur.status = "failed")
          => IF j \in pseen
             THEN IF pcache'[j].loaded THEN pcache'[j].cur.status = "seeding"
                  ELSE jobs'[j].status = "seeding"
             ELSE IF pcache'[j].loaded THEN pcache'[j].cur.status = "failed"
                  ELSE jobs'[j].status = jobs[j].status]_vars

(* C4 amended: the iteration for a failed job whose torrent the client reports
   never leaves it failed: it leaves it seeding, downloading (a downloading state
   was reported) or processing (finalization was started); a failed job whose
   torrent is not in the answer of the client is left as it is *)
C4_FailedLeavesFailed ==
    [][\A j \in Jobs :
          (PollIterates(j) /\ Load(pcache, jobs, j).cur.status = "failed")
          => IF j \in pseen
             THEN IF pcache'[j].loaded
                  THEN pcache'[j].cur.status \in {"seeding", "downloading", "processing"}
                  ELSE jobs'[j].status \in {"seeding", "downloading", "processing"}
             ELSE IF pcache'[j].loaded THEN pcache'[j].cur.status = "failed"
                  ELSE jobs'[j].status = jobs[j].status]_vars

(* the poll cycle is inside the iteration of a job it loaded as failed, and has
   set another status *)
C4_Witness ==
    /\ mpc \in {"poll_resume", "poll_wait_lock", "poll_removing"}
    /\ pcache[mlist[midx]].orig.status = "failed"
    /\ pcache[mlist[midx]].cur.status \in {"seeding", "downloading"}

(* C5: the stored seed_seconds of a job stays within 0..MAX_SEED_SECONDS and
   never decreases, in the table and in the session of the poll cycle *)
C5_SeedSecondsBounded ==
    [][\A j \in Jobs :
          /\ jobs'[j].seed_seconds \in 0..MAX_SEED_SECONDS
          /\ jobs'[j].seed_seconds >= jobs[j].seed_seconds
          /\ pcache'[j].loaded =>
                /\ pcache'[j].cur.seed_seconds \in 0..MAX_SEED_SECONDS
                /\ pcache'[j].cur.seed_seconds >= jobs[j].seed_seconds]_vars

(* a report above the limit was stored as the limit *)
C5_Witness == \E j \in Jobs : jobs[j].seed_seconds = MAX_SEED_SECONDS

(* C6: while a finalization of a job holds the job lock, the poll cycle is not
   inside the iteration of that job, where it has read and set the status in its
   session before asking for the lock *)
C6_PollStatusUnderLock ==
    \A t \in TaskIds :
        (fin[t].pc = "process" /\ jobLock.holder = t)
        => ~(mpc \in {"poll_resume", "poll_wait_lock"} /\ mlist[midx] = fin[t].job)

(* C7: at most one finalization is in its post-processing step *)
C7_OnePostProcessing ==
    Cardinality({t \in TaskIds : fin[t].pc = "process"}) <= 1

(* one finalization post-processes while another waits for the post-process lock *)
C7_Witness ==
    \E t1, t2 \in TaskIds :
        t1 # t2 /\ fin[t1].pc = "process" /\ fin[t2].pc = "want_pp"

(* C8: the poll cycle never waits for the job lock while the finalization of
   another job holds it during post-processing *)
C8_PollNotBlockedByMerge ==
    ~(/\ mpc = "poll_wait_lock"
      /\ \E t \in TaskIds : /\ jobLock.holder = t
                            /\ fin[t].pc = "process"
                            /\ fin[t].job # mlist[midx])

(* C9: while a remove_torrent call is in flight, the seed time of the job whose
   torrent is removed meets the required seed time of its seed configuration *)
C9_RemoveOnlyRetained ==
    mpc \in {"poll_removing", "cleanup_removing"}
    => MeetsSeedTime(pcache[mlist[midx]].cur, pcache[mlist[midx]].cur.seed_seconds)

(* C10: a job that was finalized and whose seed time is met while the client
   holds its torrent is eventually completed, with completed_at set and the
   torrent removed *)
C10_EventuallyCompleted ==
    \A j \in Jobs :
        (/\ jobs[j].dest # NoPath
         /\ MeetsSeedTime(jobs[j], jobs[j].seed_seconds)
         /\ j \in present)
        ~> (/\ jobs[j].status = "completed"
            /\ jobs[j].completed_at # NoTime
            /\ j \notin present)

(* C11: a job has completed_at set only when its status is completed *)
C11_CompletedAtOnlyTerminal ==
    \A j \in Jobs : jobs[j].completed_at # NoTime => jobs[j].status = "completed"

(* a job in processing or seeding with a hash, no destination_path and no
   finalization of it started, waiting for a lock or running *)
Orphan(j) ==
    /\ jobs[j].status \in {"processing", "seeding"}
    /\ jobs[j].dest = NoPath /\ jobs[j].hash
    /\ \A t \in TaskIds : fin[t].job # j
    /\ \A i \in 1..Len(spawned) : spawned[i].job # j

(* the orphan sweep runs the post-processing of the job *)
SweepFinalizing(j) == fin["sweep"].pc = "process" /\ fin["sweep"].job = j

(* C12 as stated: a job in processing does not stay in processing, and an
   orphan in processing is eventually finalized by the sweep *)
C12_NoJobStaysProcessing ==
    \A j \in Jobs :
        /\ (jobs[j].status = "processing") ~> (jobs[j].status # "processing")
        /\ (jobs[j].status = "processing" /\ Orphan(j)) ~> SweepFinalizing(j)

(* C12 amended: as long as the client holds the torrent of the job, a job in
   processing does not stay in processing, an orphan in processing is
   eventually finalized by the sweep, and an orphan that the manager finds
   before its first sweep is eventually finalized or no longer selected *)
C12_OrphanRecovered ==
    \A j \in Jobs :
        /\ (jobs[j].status = "processing")
              ~> (jobs[j].status # "processing" \/ j \notin present)
        /\ (jobs[j].status = "processing" /\ Orphan(j))
              ~> (SweepFinalizing(j) \/ j \notin present)
        /\ (Orphan(j) /\ last_sweep = NoTime)
              ~> \/ \E t \in TaskIds : fin[t].pc = "process" /\ fin[t].job = j
                 \/ j \notin present
                 \/ jobs[j].status \notin {"processing", "seeding"}

(* the process was stopped during a finalization, and the sweep of the new
   process finalizes the job that was left in processing *)
C12_Witness ==
    /\ crashes > 0
    /\ \E j \in Jobs : SweepFinalizing(j) /\ jobs[j].status = "processing"

(* C13: the worker's step on a dequeued job: when download_torrent and
   add_torrent gave a hash the job is committed with the hash and status
   seeding and the step ends with the hash and without another status written
   by the worker; when they raised or gave no hash the step ends with status
   failed and the failure message *)
C13_WorkerOutcome ==
    [][\A j \in Jobs :
        wjob = j =>
          /\ (wpc = "adding" /\ wpc' = "limits")
                => (jobs'[j].hash /\ jobs'[j].status = "seeding")
          /\ (wpc = "adding" /\ wpc' = "idle")
                => (jobs'[j].status = "failed" /\ jobs'[j].message = "Processing failed")
          /\ (wpc = "limits" /\ wpc' = "idle")
                => (jobs'[j].hash /\ jobs'[j].status = jobs[j].status)]_vars

(* C14: reprocess_job on a job without a client hash commits status pending
   and completed_at None, puts the job id on the queue, returns True and
   touches no other job; on an unknown job id it returns False and changes
   neither the job table nor the queue *)
C14_ReprocessWithoutHash ==
    [][\A j \in Jobs :
        ReprocessStart(j) =>
          IF jobs[j].status = "absent"
          THEN rret' = "false" /\ jobs' = jobs /\ queue' = queue
          ELSE ~jobs[j].hash =>
                 /\ jobs'[j].status = "pending"
                 /\ jobs'[j].completed_at = NoTime
                 /\ queue' = Append(queue, j)
                 /\ rret' = "true"
                 /\ \A k \in Jobs \ {j} : jobs'[k] = jobs[k]]_vars

(* reprocess_job returned True for a job whose add had failed: the job is
   pending again and on the queue *)
C14_Witness ==
    /\ rret = "true" /\ rcount > 0
    /\ \E j \in Jobs : /\ jobs[j].status = "pending" /\ ~jobs[j].hash
                       /\ jobs[j].message = "Retrying download"
                       /\ \E i \in 1..Len(queue) : queue[i] = j

(* C15: when reprocess_job on a job with a client hash goes on to
   _finalize_job, the row has completed_at None and the job id was not put on
   the queue *)
C15_ReprocessResetsCompletedAt ==
    [][(rpc = "get" /\ rpc' = "fin")
          => (jobs'[rjob].completed_at = NoTime /\ queue' = queue)]_vars

(* the retention requirement of the seed configuration stored in a row holds
   for a seed time and a reported ratio *)
StoredRetentionMet(row, seed_seconds, ratios) ==
    LET cfg == row.seed_configuration IN
    /\ cfg = NoCfg \/ cfg.required_seed_seconds = 0
          \/ seed_seconds >= cfg.required_seed_seconds
    /\ cfg = NoCfg \/ cfg.ratio_limit = NoRatio
          \/ \E r \in ratios : r >= cfg.ratio_limit

(* C16: the seed_configuration of a row is written only by the worker's step
   that added the torrent, whatever the settings have become, and a poll
   iteration goes on to retire a job or to start its finalization only when
   the configuration stored in the row is met *)
C16_SeedConfigurationFrozen ==
    [][\A j \in Jobs :
        /\ jobs'[j].seed_configuration # jobs[j].seed_configuration
              => (wjob = j /\ wpc = "adding" /\ wpc' = "limits")
        /\ (mpc = "poll_update" /\ mlist[midx] = j
              /\ (mpc' = "poll_removing" \/ Len(spawned') > Len(spawned)))
              => StoredRetentionMet(jobs[j], Load(pcache', jobs', j).cur.seed_seconds,
                                    {t.ratio : t \in reports})]_vars

(* the settings were edited after the torrent was added: the row keeps the
   configuration that was built at the add *)
C16_Witness ==
    \E j \in Jobs :
        /\ jobs[j].hash
        /\ jobs[j].seed_configuration # build_seed_configuration(settings)
        /\ jobs[j].status = "processing"

(* C17: the end of the set_share_limits call after a successful add, whether
   the call returned or raised, does not make the job failed *)
C17_ShareLimitsBestEffort ==
    [][(wpc = "limits" /\ wpc' = "idle")
          => (jobs'[wjob].status = "failed" => jobs[wjob].status = "failed")]_vars

(* the row of the job is one the retirement branch acts on, and the client
   holds its torrent *)
Retirable(j) ==
    /\ jobs[j].status = "seeding" /\ jobs[j].dest # NoPath
    /\ MeetsSeedTime(jobs[j], jobs[j].seed_seconds)
    /\ j \in present

(* the poll cycle awaits remove_torrent for the job *)
Removing(j) == mpc = "poll_removing" /\ mlist[midx] = j

(* C18: when the remove_torrent call of the retirement branch raises, the job
   is not completed, a row that was seeding stays seeding, completed_at is
   not changed and the torrent stays; and a job that stays retirable gets
   another remove_torrent call *)
C18_FailedRemovalRetried ==
    /\ [][\A j \in Jobs :
            (Removing(j) /\ j \in present' /\ ~Removing(j)')
               => /\ jobs'[j].status # "completed"
                  /\ jobs[j].status = "seeding" => jobs'[j].status = "seeding"
                  /\ jobs'[j].completed_at = jobs[j].completed_at
                  /\ removedOK' = removedOK]_vars
    /\ \A j \in Jobs : (Retirable(j) /\ ~Removing(j)) ~> (Removing(j) \/ ~Retirable(j))

(* a removal has failed and the poll cycle is calling remove_torrent again *)
C18_Witness ==
    \E j \in Jobs : Removing(j) /\ Retirable(j) /\ j \in removeFailed /\ j \notin removedOK

(* the position of _monitor at the pass that follows the one at position pc *)
PassAfter(pc) ==
    CASE pc = "sleep" -> "poll"
      [] pc = "poll" -> "sweep"
      [] pc = "sweep" -> "cleanup"
      [] OTHER -> "sleep"

(* C19: when a pass of a monitor cycle raises, the exception is logged and the
   monitor goes on with the pass that follows it in the cycle (after the last
   pass, with the sleep of the next cycle) *)
C19_CaughtPerSweep ==
    [][monitor_errors' > monitor_errors => mpc' = PassAfter(mpc)]_vars

(* C20: when the retry sweep has a best candidate for the wishlist request: if
   a pending, downloading, seeding or processing job exists for that torrent,
   no job is created or enqueued and mam_last_check is set to the time of the
   sweep; otherwise exactly one job is created, pending, for that torrent and
   put at the end of the queue, and mam_unavailable is cleared *)
C20_RetryCreatesOneJob ==
    [][(mpc = "retry_search" /\ rlist' = Tail(rlist) /\ crashes' = crashes
           /\ mamBest[Head(rlist)] \in TorrentIds)
          => LET r == Head(rlist) IN
             IF \E j \in Jobs :
                  /\ jobs[j].request_id = r /\ jobs[j].torrent_id = mamBest[r]
                  /\ jobs[j].status \in {"pending", "downloading", "seeding", "processing"}
             THEN /\ jobs' = jobs /\ queue' = queue
                  /\ wish'[r].mam_last_check = last_mam_retry
                  /\ wish'[r].mam_last_check # wish[r].mam_last_check
             ELSE /\ \E j \in Jobs :
                      /\ jobs[j].status = "absent"
                      /\ jobs'[j].status = "pending" /\ jobs'[j].torrent_id = mamBest[r]
                      /\ jobs'[j].request_id = r
                      /\ \A k \in Jobs \ {j} : jobs'[k] = jobs[k]
                      /\ queue' = Append(queue, j)
                  /\ ~wish'[r].mam_unavailable]_vars

(* the retry sweep queued a job for the best candidate next to a job of the
   request that is still active *)
C20_Witness ==
    \E j, k \in Jobs :
        /\ j # k
        /\ jobs[j].message = "Queued via MAM retry" /\ jobs[j].status = "pending"
        /\ Len(queue) > 0 /\ queue[Len(queue)] = j
        /\ jobs[k].status \in ActiveStatuses /\ jobs[k].torrent_id # jobs[j].torrent_id
        /\ jobs[k].request_id = jobs[j].request_id
        /\ ~wish[jobs[j].request_id].mam_unavailable
        /\ wish[jobs[j].request_id].mam_last_check = last_mam_retry

(* C21: when the tracker search of one request of a retry sweep fails, the
   request's mam_last_check is set to the time of the sweep and the sweep goes
   on with the next selected request; a sweep takes at most five requests and
   none that was checked less than the retry interval ago *)
C21_SearchFailureSkipsItem ==
    [][/\ (mpc = "retry_search" /\ rlist' # rlist /\ mamBest[Head(rlist)] = Unreachable)
          => /\ wish'[Head(rlist)].mam_last_check = last_mam_retry
             /\ rlist' = Tail(rlist)
             /\ Tail(rlist) # <<>> => mpc' = "retry_search"
       /\ (mpc = "sleep" /\ mpc' = "retry_search")
          => /\ Len(rlist') <= 5
             /\ \A i \in 1..Len(rlist') :
                   \/ wish[rlist'[i]].mam_last_check = NoTime
                   \/ now - wish[rlist'[i]].mam_last_check >= 72 * 3600]_vars

(* a search of the running sweep failed, the sweep is searching a later
   request, and it is not the first sweep *)
C21_Witness ==
    /\ mpc = "retry_search" /\ rlist # <<>> /\ now > 0
    /\ \E r \in Requests :
        /\ \A i \in 1..Len(rlist) : rlist[i] # r
        /\ mamBest[r] = Unreachable
        /\ wish[r].mam_last_check = last_mam_retry

(* C22: at most one DownloadManager is constructed, and every call of
   get_instance or get_instance_async returned that one instance *)
C22_SingleInstance ==
    /\ constructed <= 1
    /\ \A c \in Callers : gret[c] # NotCalled => gret[c].inst = instance /\ instance # NoInstance

(* every task has its instance, some through get_instance and some through
   get_instance_async *)
C22_Witness ==
    /\ \A c \in Callers : gret[c] # NotCalled
    /\ \E c, d \in Callers : gret[c].via = "sync" /\ gret[d].via = "async"
    /\ constructed = 1

(* C23: the directory handed to the post-processor is, as a path, the reported
   directory with remote_prefix replaced by local_prefix when the reported
   directory starts with remote_prefix, and the reported directory itself
   when it does not *)
C23_RemotePrefixReplaced ==
    ret.done =>
        IF StartsWith(arg.dir, arg.remote)
        THEN Parts(ret.value, <<>>)
                = Parts(arg.local \o Drop(arg.dir, Len(arg.remote)), <<>>)
        ELSE ret.value = arg.dir

(* C24: when the name of an input file of the merge contains a newline, the
   merge raises PostProcessingError and the external merge process is not run *)
C24_NewlineRejected ==
    (ret.done /\ \E i \in 1..Len(arg.files) :
                     \E k \in 1..Len(arg.files[i]) : arg.files[i][k] = Newline)
        => ret.value.raised /\ ~ret.value.invoked

(* C25: artist and album_artist are the first author, or empty when the
   request has no authors, whether or not narrators are present; composer is
   the comma-joined narrators, or absent when there are none *)
C25_ArtistIsPrimaryAuthor ==
    ret.done =>
        LET primary == IF arg.authors # <<>> THEN arg.authors[1] ELSE <<>>
        IN  /\ ret.value.artist = primary
            /\ (arg.authors # <<>> => ret.value.album_artist = primary)
            /\ ret.value.composer = IF arg.narrators # <<>>
                                    THEN Tag(CommaJoin(arg.narrators)) ELSE NoTag

(* C26: two QbitClient objects with the same base URL and different
   credentials have different cookie keys, and the cookies a client loaded
   from the cache at construction were stored by a client with its own
   credentials *)
C26_CookieKeySeparatesCredentials ==
    \A q \in QbitIds : qclient[q].made =>
        /\ \A r \in QbitIds :
              (/\ qclient[r].made
               /\ qclient[r].base_url = qclient[q].base_url
               /\ <<qclient[r].username, qclient[r].password>>
                     # <<qclient[q].username, qclient[q].password>>)
                 => qclient[r].cookie_key # qclient[q].cookie_key
        /\ qclient[q].cached # NoCreds
              => qclient[q].cached = <<qclient[q].username, qclient[q].password>>

(* C27: a torrent is treated as downloaded exactly when leftUntilDone is 0, or
   progress is at least 1.0, or the state is one of the uploading states,
   whatever the other two values are *)
C27_AnyOneSuffices ==
    ret.done =>
        (ret.value <=>
            \/ arg.leftUntilDone = 0
            \/ (arg.progress # Missing /\ arg.progress # NotANumber
                    /\ arg.progress >= CompleteProgress)
            \/ arg.state \in {"uploading", "forcedup", "pausedup", "stalledup"})

(* C28: a step that makes a job failed finds it downloading or processing *)
C28_FailedOnlyFromActive ==
    [][\A j \in Jobs :
          (jobs'[j].status = "failed" /\ jobs[j].status # "failed")
              => jobs[j].status \in {"downloading", "processing"}]_vars

(* the poll pass is past get_torrents and the answer has no entry for job j *)
PollPassPcs == {"poll_update", "poll_resume", "poll_wait_lock", "poll_removing"}
InPass(j) == \E i \in 1..Len(mlist) : mlist[i] = j
SkippedInPass(j) == mpc \in PollPassPcs /\ InPass(j) /\ j \notin pseen
(* the loop of the pass is at job j, whose hash the answer does not hold *)
AtSkipped(j) == mpc = "poll_update" /\ mlist[midx] = j /\ j \notin pseen
(* the select of a poll pass would take job j *)
PollEligible(j) == jobs[j].hash /\ jobs[j].status \in {"downloading", "seeding", "failed"}
TrackedFields(row) ==
    <<row.status, row.seed_seconds, row.message, row.dest, row.completed_at>>

(* C29: no step of a poll pass changes status, seed_seconds, message,
   destination_path or completed_at of a job whose hash is missing from the
   answer of get_torrents; the loop iteration of that job goes on to the next
   job or to the end of the pass without a call to the client and without
   starting a finalization; and while the row stays eligible the job is in the
   list of a later pass *)
C29_MissingTorrentSkipped ==
    /\ [][\A j \in Jobs :
            (SkippedInPass(j) /\ (mpc' # mpc \/ midx' # midx))
                => TrackedFields(jobs'[j]) = TrackedFields(jobs[j])]_vars
    /\ [][\A j \in Jobs :
            AtSkipped(j) => /\ mpc' \in {"poll_update", "sweep"}
                            /\ spawned' = spawned /\ present' = present
                            /\ jobLock' = jobLock]_vars
    /\ \A j \in Jobs :
            AtSkipped(j) ~> (~PollEligible(j) \/ (mpc = "poll_get" /\ InPass(j)))

(* the loop of a pass over both jobs is at the second job, whose row is
   eligible and whose hash is missing from the answer that held the first
   job's hash *)
C29_Witness ==
    /\ mpc = "poll_update" /\ midx = 2 /\ Len(mlist) = 2
    /\ AtSkipped(mlist[2]) /\ PollEligible(mlist[2])
    /\ mlist[1] \in pseen

(* C30: a step that changes the status of a job also changes its message *)
C30_StatusChangeUpdatesMessage ==
    [][\A j \in Jobs :
          (jobs[j].status # "absent" /\ jobs'[j].status # jobs[j].status)
              => jobs'[j].message # jobs[j].message]_vars

(* a run of a sweep is in progress: the monitor is inside it, at an await *)
RetryRunning == mpc = "retry_search"
SweepRunning == mpc \in {"sweep_get", "sweep_fin", "sweep_next"}
CleanupRunning == mpc = "cleanup_removing"
(* the step in which a sweep passes its gate *)
RetryStarts == mpc = "sleep" /\ (RetryRunning' \/ last_mam_retry' # last_mam_retry)
SweepStarts == mpc = "sweep" /\ (SweepRunning' \/ last_sweep' # last_sweep)
CleanupStarts == mpc = "cleanup" /\ (CleanupRunning' \/ last_cleanup' # last_cleanup)
(* the sweep never ran, or its stamp is at least the interval old *)
IntervalPassed(last, interval) == last = NoTime \/ now - last >= interval

(* C31: a run of a sweep starts only when no run of that sweep is in progress
   (the in-flight flag of the orphan sweep is set exactly while its run
   lasts) and when the sweep never ran or its minimum interval has passed
   since the time stamped by the previous run: its start for the retry and
   the cleanup sweep, its end for the orphan sweep *)
C31_SweepsDoNotPileUp ==
    /\ [](sweep_running <=> SweepRunning)
    /\ [][RetryStarts => ~RetryRunning /\ IntervalPassed(last_mam_retry, RetryGate)]_vars
    /\ [][SweepStarts => ~SweepRunning /\ ~sweep_running
                            /\ IntervalPassed(last_sweep, SweepInterval)]_vars
    /\ [][CleanupStarts => ~CleanupRunning
                            /\ IntervalPassed(last_cleanup, SweepInterval)]_vars

(* a cleanup run that has lasted longer than its interval, after the retry and
   the orphan sweep have run *)
C31_Witness ==
    /\ CleanupRunning /\ now - last_cleanup >= SweepInterval
    /\ last_mam_retry # NoTime /\ last_sweep # NoTime

(* a finalization of job j is running the post-processor *)
Finalizing(j) == \E t \in TaskIds : fin[t].pc = "process" /\ fin[t].job = j
(* the failure handler of a finalization of job j has just committed *)
JustFailed(j) ==
    /\ jobs[j].message \in FinFailMessages
    /\ ~Finalizing(j)

(* C32: a failed finalization leaves the job seeding with no destination
   path, no job is ever failed, and while the wall clock can still advance by
   the sweep interval the orphan sweep runs the post-processor for the job
   again after every failure *)
C32_BrokenJobRetriedForever ==
    /\ [][\A j \in Jobs :
            (Finalizing(j) /\ ~Finalizing(j)')
                => /\ jobs'[j].status = "seeding" /\ jobs'[j].dest = NoPath
                   /\ jobs'[j].message \in FinFailMessages]_vars
    /\ [](\A j \in Jobs : jobs[j].status # "failed")
    /\ \A j \in Jobs :
          (JustFailed(j) /\ now < MaxQuarters * SweepInterval)
              ~> (fin["sweep"].pc = "process" /\ fin["sweep"].job = j)

(* the orphan sweep runs the post-processor for a job whose row still shows
   the failure of an earlier attempt, three sweep intervals after the start *)
C32_Witness ==
    /\ fin["sweep"].pc = "process" /\ fin["sweep"].job = "j1"
    /\ jobs["j1"].message \in FinFailMessages
    /\ jobs["j1"].status = "seeding" /\ jobs["j1"].dest = NoPath
    /\ now >= 3 * SweepInterval

(* ---------------------------------------------------------------------- *)
(* C33: re-login and single retry on a 403                                 *)
(* ---------------------------------------------------------------------- *)
RequestEnded == qreq.pc = "done"
FirstForbidden == Len(qreq.statuses) >= 1 /\ qreq.statuses[1] = 403
RetryRejected == Len(qreq.statuses) >= 2 /\ qreq.statuses[2] \in {401, 403}

(* C33 as stated: a _request call that was answered 403 has made exactly
   one forced re-login and then sent the request exactly once more; when
   that retry is rejected again the call ends with AuthenticationError; and
   no call sends the request more than twice. *)
C33_ForbiddenReloginAndRetry ==
    /\ qreq.sent <= 2
    /\ (RequestEnded /\ FirstForbidden) =>
          /\ qreq.logins = 1
          /\ qreq.sent = 2
          /\ (RetryRejected => qreq.outcome = "AuthenticationError")

(* C33 amended: a _request call whose first answer is 403 makes exactly one
   forced re-login; the request is sent once more exactly when that login
   succeeded, and otherwise the call ends with the error of the login
   without a retry; a retry answered 401 or 403 ends the call with
   AuthenticationError; a call whose first answer is not 403 does not log
   in and sends once; and no call sends the request more than twice. *)
C33_RetryOnlyAfterLogin ==
    /\ qreq.sent <= 2 /\ qreq.logins <= 1
    /\ RequestEnded =>
          /\ FirstForbidden => qreq.logins = 1
          /\ (FirstForbidden /\ qreq.login_ok) => qreq.sent = 2
          /\ (FirstForbidden /\ ~qreq.login_ok) =>
                /\ qreq.sent = 1
                /\ qreq.outcome \in {"AuthenticationError", "QbitClientError"}
          /\ RetryRejected => qreq.outcome = "AuthenticationError"
          /\ ~FirstForbidden => qreq.logins = 0 /\ qreq.sent <= 1

(* a call was answered 403, logged in again, and its retry was answered 403 *)
C33_Witness ==
    /\ RequestEnded /\ FirstForbidden /\ qreq.login_ok
    /\ qreq.statuses = <<403, 403>> /\ qreq.outcome = "AuthenticationError"

(* ---------------------------------------------------------------------- *)
(* C34: the worker drains the queue                                        *)
(* ---------------------------------------------------------------------- *)
WorkerBusy == wpc \notin {"idle", "dead"}

(* C34: the worker takes the ids one at a time from the head of the queue,
   in the order they were submitted; an exception while a job is processed
   ends with that job failed and the worker back at the queue; and every
   submitted id is eventually dequeued and processed: the queue becomes
   empty with the worker waiting at it. *)
C34_EveryJobProcessed ==
    /\ [][queue' # queue => (~WorkerBusy /\ queue # <<>> /\ queue' = Tail(queue))]_vars
    /\ [][(wpc = "handler" /\ wpc' # "handler") =>
             (wpc' = "idle" /\ jobs'[wjob].status = "failed")]_vars
    /\ \A j \in Jobs : (jobs[j].status = "pending") ~> (jobs[j].status # "pending")
    /\ <>[](queue = <<>> /\ wpc = "idle")

(* ---------------------------------------------------------------------- *)
(* C35: no deadlock on the two locks                                       *)
(* ---------------------------------------------------------------------- *)
WaitsForLock(t) == fin[t].pc \in {"want_pp", "want_job"}
PollWaitsForLock == mpc = "poll_wait_lock"

(* the poll is to create a finalization task and all the tasks of PollTasks
   exist already: the run goes beyond what the model holds *)
PollOutOfTasks ==
    /\ spawned = <<>> /\ FreePollTasks = {}
    /\ \/ mpc = "poll_update" /\ ~ENABLED PollUpdate
       \/ mpc = "poll_wait_lock" /\ jobLock.holder = "poll" /\ ~ENABLED PollLocked

(* C35: when every post-processing run ends, every finalization (spawned by
   the poll, awaited by the orphan sweep or by a manual reprocess call) that
   waits for the post-process lock or for the job lock eventually holds both
   and runs the post-processor, and a poll cycle that waits for the job lock
   eventually enters its locked section (in runs with no more finalization
   tasks at a time than PollTasks holds). *)
C35_LocksEventuallyGranted ==
    /\ \A t \in TaskIds : WaitsForLock(t) ~> (fin[t].pc = "process" \/ PollOutOfTasks)
    /\ PollWaitsForLock ~> (mpc # "poll_wait_lock" \/ PollOutOfTasks)
    /\ (spawned # <<>>) ~> (spawned = <<>>)

(* the poll, which waited for the job lock behind a finalization, was handed
   it and is about to enter its locked section *)
C35_Witness ==
    /\ mpc = "poll_wait_lock" /\ jobLock.holder = "poll"
    /\ \A t \in TaskIds : fin[t].pc # "process"

(* ---------------------------------------------------------------------- *)
(* C36: finalization only after the download is complete                   *)
(* ---------------------------------------------------------------------- *)
ReportedComplete == \E t \in reports : IsDownloaded(t)

(* C36: the post-processor runs for a job, whether the finalization was
   spawned by the poll cycle or awaited by the orphan sweep, only when the
   client reports the torrent of the job as completely downloaded. *)
C36_FinalizeOnlyComplete ==
    \A t \in PollTasks \cup {"sweep"} : fin[t].pc = "process" => ReportedComplete

(* ---------------------------------------------------------------------- *)
(* C37: one active job for a request and a torrent                         *)
(* ---------------------------------------------------------------------- *)
(* C37: no two jobs in an active status (pending, downloading, seeding,
   processing) are of the same request and for the same torrent, also after
   the poll set a failed job back to seeding and after a manual reprocess. *)
C37_OneActiveJobPerPair ==
    \A j, k \in Jobs :
        (/\ j # k
         /\ jobs[j].status \in {"pending", "downloading", "seeding", "processing"}
         /\ jobs[k].status \in {"pending", "downloading", "seeding", "processing"})
        => <<jobs[j].request_id, jobs[j].torrent_id>> # <<jobs[k].request_id, jobs[k].torrent_id>>

(* ---------------------------------------------------------------------- *)
(* C38: seeding and processing jobs have a hash                            *)
(* ---------------------------------------------------------------------- *)
(* C38: a job whose status is seeding or processing has a client hash,
   whatever the worker, the poll, a finalization or a manual reprocess call
   did to it. *)
C38_SeedingHasHash ==
    \A j \in Jobs : jobs[j].status \in {"seeding", "processing"} => jobs[j].hash

(* a manual reprocess call found the torrent of a job that has a hash and put
   the job into processing *)
C38_Witness ==
    /\ jobs["j1"].status = "processing" /\ jobs["j1"].hash
    /\ rcount = 1 /\ fin["reprocess"].job = "j1"

(* ---------------------------------------------------------------------- *)
(* C39: completed is left only by a manual reprocess                       *)
(* ---------------------------------------------------------------------- *)
Completed(j) == jobs[j].status = "completed"
OutcomeChanged(j) ==
    \/ jobs'[j].status # jobs[j].status
    \/ jobs'[j].dest # jobs[j].dest
    \/ jobs'[j].completed_at # jobs[j].completed_at
(* a step of reprocess_job or of the finalization it awaits *)
ReprocessStep == rpc' # rpc \/ rcount' # rcount \/ fin'["reprocess"] # fin["reprocess"]
(* a step of the monitor: a pass of the poll or of a sweep *)
MonitorStep == mpc' # mpc \/ midx' # midx
(* the job a pass of the monitor is calling the client for *)
ClientCalledFor(j) ==
    \/ mpc = "poll_get" /\ \E i \in 1..Len(mlist) : mlist[i] = j
    \/ mpc \in {"poll_removing", "poll_resuming", "sweep_get", "cleanup_removing"}
          /\ midx \in 1..Len(mlist) /\ mlist[midx] = j

(* C39: the status, destination_path and completed_at of a completed job
   change only in a step of a manual reprocess call, and no pass of the
   monitor starts a call of the torrent client for a completed job. *)
C39_CompletedLeftOnlyByReprocess ==
    /\ [][\A j \in Jobs : (Completed(j) /\ OutcomeChanged(j)) => ReprocessStep]_vars
    /\ [][\A j \in Jobs : (Completed(j) /\ MonitorStep) => ~ClientCalledFor(j)']_vars

====
